---- MODULE Spec2Model ----
(***************************************************************************)
(* Detection-and-scoring engine of the influence-campaign analyser:        *)
(* CampaignScorer (backend/app/detection/campaign_scoring.py),             *)
(* CoordinationDetector (backend/app/detection/coordination_detection.py), *)
(* BurstDetector (backend/app/detection/burst_detection.py) and            *)
(* BotDetector (backend/app/detection/bot_detection.py).                   *)
(*                                                                         *)
(* Arithmetic.  The Python code works on floats.  The model is exact:     *)
(* collaborator scores in [0,1] are integers in hundredths (0..100); a    *)
(* component score of p points (0..100) is the integer p * Q, where Q is  *)
(* a multiple of 100 and of every list length that can occur as a         *)
(* denominator; the final score of p points is p * 100 * Q (the weights   *)
(* are hundredths).  Every division below is therefore exact.             *)
(***************************************************************************)
EXTENDS Integers, Sequences, FiniteSets, TLC

VARIABLES
    \* ---- score_campaign ----
    nposts,        \* len(posts) handed to score_campaign
    outcome,       \* what each sub-analysis returns on these posts if it does not raise
    failed,        \* index of the sub-analysis that raised in this call (0: none)
    result,        \* the dictionary score_campaign returned
    spc,           \* "ready": score_campaign not yet called; "done": it returned
    \* ---- _determine_severity alone ----
    sevIn,         \* a final score, in tenths of a point
    sevOut,        \* the band _determine_severity returned for it ("" before)
    \* ---- detect_coordination ----
    posts,         \* the post list handed to detect_coordination
    profiles,      \* the author dictionary carried by the posts of each account
    now,           \* the wall clock, in days (datetime.now())
    baseline,      \* what the previous call of detect_coordination returned
    coord,         \* what the latest call of detect_coordination returned
    phase,         \* where the caller of detect_coordination stands
    \* ---- detect_bursts / detect_hashtag_bursts ----
    burstPosts,    \* the post list handed to the burst detector
    burstTag,      \* the hashtag handed to detect_hashtag_bursts ("" for detect_bursts)
    burstOut,      \* what the burst detector returned, or that it raised
    \* ---- calculate_bot_likelihood / analyze_bot_network ----
    botIn,         \* the accounts handed to the bot detector
    botOut,        \* what the bot detector returned
    \* ---- _group_similar_content alone ----
    pairList,      \* the list similar_pairs
    groupsOut,     \* the groups returned for it
    \* ---- _kleinberg_burst_detection alone ----
    kbSeries,      \* the hourly counts of the time series handed to the DP
    kbOut,         \* the state sequence it chose and the bursts it returned
    \* ---- the per-author loop of _run_analysis_pipeline / analyze_bot_network ----
    attrPosts,     \* the post list, each post carrying its author dictionary
    attrOut        \* the authors analysed and the posts handed over with each

scoreVars == <<nposts, outcome, failed, result, spc>>
sevVars == <<sevIn, sevOut>>
coordVars == <<posts, profiles, now, baseline, coord, phase>>
burstVars == <<burstPosts, burstTag, burstOut>>
botVars == <<botIn, botOut>>
groupVars == <<pairList, groupsOut>>
seriesVars == <<kbSeries, kbOut>>
attrVars == <<attrPosts, attrOut>>
vars == <<nposts, outcome, failed, result, spc, sevIn, sevOut,
          posts, profiles, now, baseline, coord, phase,
          burstPosts, burstTag, burstOut, botIn, botOut, pairList, groupsOut,
          kbSeries, kbOut, attrPosts, attrOut>>

\* ------------------------------------------------------------------------
\* Bounds of the model
\* ------------------------------------------------------------------------
MaxScoredPosts == 3     \* score_campaign: at most this many posts
MaxScoredAuthors == 3   \* score_campaign: at most this many authors
MaxBursts == 4          \* at most this many kleinberg bursts reported
MaxClusters == 1        \* at most this many narrative clusters

\* ------------------------------------------------------------------------
\* Helpers
\* ------------------------------------------------------------------------
Min(a, b) == IF a <= b THEN a ELSE b
Max(a, b) == IF a >= b THEN a ELSE b

RECURSIVE Gcd(_, _)
Gcd(a, b) == IF b = 0 THEN a ELSE Gcd(b, a % b)

RECURSIVE LcmUpTo(_)
LcmUpTo(k) == IF k <= 1 THEN 1 ELSE (LcmUpTo(k - 1) * k) \div Gcd(LcmUpTo(k - 1), k)

RECURSIVE SumSeq(_)
SumSeq(s) == IF s = <<>> THEN 0 ELSE Head(s) + SumSeq(Tail(s))

CountIf(s, P(_)) == Cardinality({i \in DOMAIN s : P(s[i])})

\* One point of a 0-100 score, in model units.
Q == 100 * LcmUpTo(Max(MaxScoredPosts, Max(MaxScoredAuthors, MaxClusters)))
\* One point of the final score, in model units (component units x weight in hundredths).
QF == 100 * Q

\* dict.get(key, default)
Get(d, key, default) == IF key \in DOMAIN d THEN d[key] ELSE default

\* ------------------------------------------------------------------------
\* CampaignScorer
\* ------------------------------------------------------------------------
Components == {"toxicity", "stance", "coordination", "bot_network",
               "burst_activity", "narrative_threat"}

\* self.weights, in hundredths
weights == [toxicity |-> 20, stance |-> 25, coordination |-> 25,
            bot_network |-> 15, burst_activity |-> 10, narrative_threat |-> 5]

\* self.severity_thresholds, in dictionary order: <<name, min_score, max_score>>
severity_thresholds == << <<"low", 0, 30>>, <<"medium", 30, 60>>,
                          <<"high", 60, 85>>, <<"critical", 85, 100>> >>

\* The sub-analyses of _run_analysis_pipeline in call order; the name is the
\* key under which the step stores its result.
Steps == <<"toxicity", "stance", "coordination", "bot_detection",
           "bot_network", "burst_detection", "narrative_clustering">>

\* Mutant of RunAnalysisPipeline: no except clause, the exception propagates.
RunAnalysisPipelineNoCatch(out, fail) ==
    LET done == IF fail = 0 THEN Len(Steps) ELSE fail - 1
    IN  [raised |-> fail # 0,
         calls  |-> IF fail = 0 THEN Len(Steps) ELSE fail,
         results |-> [k \in {Steps[i] : i \in 1..done} |-> out[k]]]

\* _run_analysis_pipeline: one try block around all seven steps.  Step
\* `fail` raises (0: none does); the results stored before it are kept, the
\* except clause logs, and the dictionary built so far is returned.
RunAnalysisPipeline(out, fail) ==
    LET done == IF fail = 0 THEN Len(Steps) ELSE fail - 1
    IN  [raised |-> FALSE,
         calls  |-> IF fail = 0 THEN Len(Steps) ELSE fail,
         results |-> [k \in {Steps[i] : i \in 1..done} |-> out[k]]]

\* r.get('toxicity_score', 0) > 0.7
HighToxicity(t) == t > 70
\* score > 0.6 on the anti_india stance score
AntiStance(a) == a > 60
\* r.get('bot_likelihood_score', 0) > 0.7
HighBot(b) == b > 70
\* avg_toxicity > 0.6 or avg_stance < -0.6
Threatening(c) == c.avg_toxicity > 60 \/ c.avg_stance < -60

\* _calculate_component_scores, in units of 1/Q point
ToxicityScore(results) ==
    LET tr == Get(results, "toxicity", <<>>)
    IN  IF tr # <<>>
        THEN Min(100 * Q, (SumSeq(tr) * 60 * Q) \div (100 * Len(tr))
                          + (CountIf(tr, HighToxicity) * 40 * Q) \div Len(tr))
        ELSE 0

StanceScore(results) ==
    LET sr == Get(results, "stance", <<>>)
    IN  IF sr # <<>>
        THEN Min(100 * Q, (SumSeq(sr) * 70 * Q) \div (100 * Len(sr))
                          + (CountIf(sr, AntiStance) * 30 * Q) \div Len(sr))
        ELSE 0

CoordinationScore(results) ==
    Get(results, "coordination", [coordination_score |-> 0]).coordination_score * Q

BotNetworkScore(results) ==
    LET network_score == Get(results, "bot_network", [network_score |-> 0]).network_score
        br == Get(results, "bot_detection", <<>>)
    IN  IF br # <<>>
        THEN Min(100 * Q, (network_score * 60 * Q) \div 100
                          + (CountIf(br, HighBot) * 40 * Q) \div Len(br))
        ELSE 0

\* Mutant of BurstActivityScore: neither min() applied.
BurstActivityScoreUnclamped(results) ==
    LET burst == Get(results, "burst_detection",
                     [coordination_score |-> 0, kleinberg_bursts |-> 0])
    IN  (burst.coordination_score * 70 * Q) \div 100 + burst.kleinberg_bursts * 10 * Q

BurstActivityScore(results) ==
    LET burst == Get(results, "burst_detection",
                     [coordination_score |-> 0, kleinberg_bursts |-> 0])
    IN  Min(100 * Q, (burst.coordination_score * 70 * Q) \div 100
                     + Min(30, burst.kleinberg_bursts * 10) * Q)

NarrativeThreatScore(results) ==
    LET clusters == Get(results, "narrative_clustering", <<>>)
    IN  IF Len(clusters) > 0
        THEN (CountIf(clusters, Threatening) * 100 * Q) \div Len(clusters)
        ELSE 0

CalculateComponentScores(results) ==
    [toxicity |-> ToxicityScore(results),
     stance |-> StanceScore(results),
     coordination |-> CoordinationScore(results),
     bot_network |-> BotNetworkScore(results),
     burst_activity |-> BurstActivityScore(results),
     narrative_threat |-> NarrativeThreatScore(results)]

\* _calculate_final_score, in units of 1/QF point
CalculateFinalScore(cs) ==
    Min(100 * QF,
        cs.toxicity * weights.toxicity + cs.stance * weights.stance
        + cs.coordination * weights.coordination
        + cs.bot_network * weights.bot_network
        + cs.burst_activity * weights.burst_activity
        + cs.narrative_threat * weights.narrative_threat)

\* _determine_severity: the first band with min_score <= score < max_score,
\* 'critical' when no band matches.  score in units of 1/QF point.
RECURSIVE SeverityFrom(_, _)
SeverityFrom(score, i) ==
    IF i > Len(severity_thresholds) THEN "critical"
    ELSE IF severity_thresholds[i][2] * QF <= score
            /\ score < severity_thresholds[i][3] * QF
         THEN severity_thresholds[i][1]
         ELSE SeverityFrom(score, i + 1)

\* Mutant of DetermineSeverity: bands inclusive at the upper edge.
RECURSIVE SeverityFromUpper(_, _)
SeverityFromUpper(score, i) ==
    IF i > Len(severity_thresholds) THEN "critical"
    ELSE IF severity_thresholds[i][2] * QF < score
            /\ score <= severity_thresholds[i][3] * QF
         THEN severity_thresholds[i][1]
         ELSE SeverityFromUpper(score, i + 1)

DetermineSeverityUpperInclusive(score) == SeverityFromUpper(score, 1)

DetermineSeverity(score) == SeverityFrom(score, 1)

\* Mutant of GenerateAlerts: thresholds compared with >= instead of >.
GenerateAlertsAtThreshold(cs) ==
    (IF cs.toxicity >= 70 * Q THEN << <<"high_toxicity", "high">> >> ELSE <<>>)
    \o (IF cs.stance >= 60 * Q THEN << <<"anti_india_narrative", "high">> >> ELSE <<>>)
    \o (IF cs.coordination >= 60 * Q
        THEN << <<"coordinated_behavior", "critical">> >> ELSE <<>>)
    \o (IF cs.bot_network >= 50 * Q THEN << <<"bot_network", "high">> >> ELSE <<>>)
    \o (IF cs.burst_activity >= 50 * Q
        THEN << <<"burst_activity", "medium">> >> ELSE <<>>)

\* _generate_alerts: <<type, severity>> of every alert, in emission order
GenerateAlerts(cs) ==
    (IF cs.toxicity > 70 * Q THEN << <<"high_toxicity", "high">> >> ELSE <<>>)
    \o (IF cs.stance > 60 * Q THEN << <<"anti_india_narrative", "high">> >> ELSE <<>>)
    \o (IF cs.coordination > 60 * Q
        THEN << <<"coordinated_behavior", "critical">> >> ELSE <<>>)
    \o (IF cs.bot_network > 50 * Q THEN << <<"bot_network", "high">> >> ELSE <<>>)
    \o (IF cs.burst_activity > 50 * Q
        THEN << <<"burst_activity", "medium">> >> ELSE <<>>)

\* _generate_recommendations
GenerateRecommendations(cs) ==
    LET final_score == CalculateFinalScore(cs)
    IN  (IF final_score > 85 * QF
         THEN <<"CRITICAL: Immediate human expert review required",
                "Consider escalating to security team",
                "Monitor for continued activity">>
         ELSE IF final_score > 60 * QF
         THEN <<"HIGH: Schedule expert review within 24 hours",
                "Increase monitoring frequency">>
         ELSE IF final_score > 30 * QF
         THEN <<"MEDIUM: Review during next analysis cycle",
                "Continue automated monitoring">>
         ELSE <<>>)
        \o (IF cs.coordination > 70 * Q
            THEN <<"Investigate coordination patterns for legal violations",
                   "Cross-reference with known influence operations">>
            ELSE <<>>)
        \o (IF cs.bot_network > 60 * Q
            THEN <<"Report bot network to platform administrators",
                   "Analyze bot creation patterns">>
            ELSE <<>>)
        \o (IF cs.toxicity > 60 * Q
            THEN <<"Flag toxic content for content moderation",
                   "Analyze toxicity trends over time">>
            ELSE <<>>)

\* _empty_campaign_score
EmptyCampaignScore ==
    [raised |-> FALSE,
     campaign_score |-> 0,
     severity |-> "low",
     component_scores |-> [c \in Components |-> 0],
     analysis_results |-> <<>>,
     alerts |-> <<>>,
     recommendations |-> <<"No data to analyze">>,
     human_review_required |-> FALSE,
     detector_calls |-> 0]

\* Mutant of ScoreCampaignResult: no early return for an empty post list.
ScoreCampaignResultNoGuard(n, out, fail) ==
    LET run == RunAnalysisPipeline(out, fail)
        cs == CalculateComponentScores(run.results)
        final_score == CalculateFinalScore(cs)
        sev == DetermineSeverity(final_score)
    IN  [raised |-> run.raised,
         campaign_score |-> final_score,
         severity |-> sev,
         component_scores |-> cs,
         analysis_results |-> run.results,
         alerts |-> GenerateAlerts(cs),
         recommendations |-> GenerateRecommendations(cs),
         human_review_required |->
             (final_score > 70 * QF \/ sev \in {"high", "critical"}),
         detector_calls |-> run.calls]

\* score_campaign on n posts; detector_calls counts the sub-analyses started.
ScoreCampaignResult(n, out, fail) ==
    IF n = 0 THEN EmptyCampaignScore
    ELSE LET run == RunAnalysisPipeline(out, fail)
             cs == CalculateComponentScores(run.results)
             final_score == CalculateFinalScore(cs)
             severity == DetermineSeverity(final_score)
         IN  IF run.raised
             THEN [raised |-> TRUE, detector_calls |-> run.calls]
             ELSE [raised |-> FALSE,
                   campaign_score |-> final_score,
                   severity |-> severity,
                   component_scores |-> cs,
                   analysis_results |-> run.results,
                   alerts |-> GenerateAlerts(cs),
                   recommendations |-> GenerateRecommendations(cs),
                   human_review_required |->
                       (final_score > 70 * QF \/ severity \in {"high", "critical"}),
                   detector_calls |-> run.calls]

\* ------------------------------------------------------------------------
\* Specification Spec: one call of score_campaign.
\* The sub-analyses are collaborators of the scorer; `outcome` is what each
\* returns when it does not raise, within its contract (scores in [0,1]).
\* Lists are enumerated up to order: the scorer only takes means and counts.
\* ------------------------------------------------------------------------
SortedSeqs(S, n) == {s \in [1..n -> S] : \A i \in 1..(n - 1) : s[i] <= s[i + 1]}

ClusterKinds == << [avg_toxicity |-> 60, avg_stance |-> -60],
                   [avg_toxicity |-> 61, avg_stance |-> 0],
                   [avg_toxicity |-> 0, avg_stance |-> -61] >>

PotentialBot(b) == b > 50

Outcomes(n) ==
    {[toxicity |-> t, stance |-> s,
      coordination |-> [coordination_score |-> c],
      bot_detection |-> b,
      bot_network |-> [network_score |-> w],
      burst_detection |-> [coordination_score |-> u, kleinberg_bursts |-> k],
      narrative_clustering |-> [i \in DOMAIN g |-> ClusterKinds[g[i]]]] :
        t \in SortedSeqs({0, 100}, n), s \in SortedSeqs({0, 100}, n),
        \* detect_coordination returns the empty result below 3 posts
        c \in IF n < 3 THEN {0} ELSE {0, 60, 100},
        b \in UNION {SortedSeqs({0, 80}, m) : m \in 0..MaxScoredAuthors},
        w \in {0, 50, 100},
        u \in {0, 100}, k \in {0, 1, MaxBursts},
        g \in UNION {SortedSeqs(1..3, m) : m \in 0..MaxClusters}}

\* analyze_bot_network scores 0 below 3 potential bots
Feasible(o) ==
    o.bot_network.network_score > 0 => CountIf(o.bot_detection, PotentialBot) >= 3

NoOutcome ==
    [toxicity |-> <<>>, stance |-> <<>>,
     coordination |-> [coordination_score |-> 0],
     bot_detection |-> <<>>,
     bot_network |-> [network_score |-> 0],
     burst_detection |-> [coordination_score |-> 0, kleinberg_bursts |-> 0],
     narrative_clustering |-> <<>>]

NoResult == [returned |-> FALSE]

IdleScore ==
    /\ nposts = 0 /\ outcome = NoOutcome /\ failed = 0
    /\ result = NoResult /\ spc = "idle"
IdleSeverity == sevIn = 0 /\ sevOut = ""
IdleCoord ==
    /\ posts = <<>> /\ profiles = <<>> /\ now = 0
    /\ baseline = NoResult /\ coord = NoResult /\ phase = "idle"
IdleBurst == burstPosts = <<>> /\ burstTag = "" /\ burstOut = NoResult
IdleBot == botIn = <<>> /\ botOut = NoResult
IdleGroup == pairList = <<>> /\ groupsOut = NoResult
IdleSeries == kbSeries = <<>> /\ kbOut = NoResult
IdleAttr == attrPosts = <<>> /\ attrOut = NoResult

Init ==
    /\ nposts \in 0..MaxScoredPosts
    /\ outcome \in IF nposts = 0 THEN {NoOutcome}
                   ELSE {o \in Outcomes(nposts) : Feasible(o)}
    /\ failed = 0
    /\ result = NoResult
    /\ spc = "ready"
    /\ IdleSeverity /\ IdleCoord /\ IdleBurst /\ IdleBot /\ IdleGroup
    /\ IdleSeries /\ IdleAttr

\* score_campaign(posts): any one sub-analysis may raise (fail), or none.
ScoreCampaign ==
    /\ spc = "ready"
    /\ \E fail \in IF nposts = 0 THEN {0} ELSE 0..Len(Steps) :
          /\ failed' = fail
          /\ result' = ScoreCampaignResult(nposts, outcome, fail)
    /\ spc' = "done"
    /\ UNCHANGED <<nposts, outcome>>
    /\ UNCHANGED sevVars /\ UNCHANGED coordVars
    /\ UNCHANGED burstVars /\ UNCHANGED botVars /\ UNCHANGED groupVars
    /\ UNCHANGED seriesVars /\ UNCHANGED attrVars

Next == ScoreCampaign

Spec == Init /\ [][Next]_vars

\* ------------------------------------------------------------------------
\* Specification SpecSeverity: _determine_severity on every score of
\* [0,100] in steps of a tenth of a point.
\* ------------------------------------------------------------------------
InitSeverity ==
    /\ sevIn \in 0..1000
    /\ sevOut = ""
    /\ IdleScore /\ IdleCoord /\ IdleBurst /\ IdleBot /\ IdleGroup
    /\ IdleSeries /\ IdleAttr

DetermineSeverityStep ==
    /\ sevOut = ""
    /\ sevOut' = DetermineSeverity((sevIn * QF) \div 10)
    /\ UNCHANGED sevIn
    /\ UNCHANGED scoreVars /\ UNCHANGED coordVars
    /\ UNCHANGED burstVars /\ UNCHANGED botVars /\ UNCHANGED groupVars
    /\ UNCHANGED seriesVars /\ UNCHANGED attrVars

NextSeverity == DetermineSeverityStep

SpecSeverity == InitSeverity /\ [][NextSeverity]_vars

\* ------------------------------------------------------------------------
\* Claims about score_campaign (specification Spec)
\* ------------------------------------------------------------------------
Returned == spc = "done" /\ ~result.raised

\* C1: for every non-empty input and every outcome of the sub-analyses,
\* each of the six component scores and the final campaign score lie in
\* [0,100].
C1_ScoresInRange ==
    (spc = "done" /\ nposts > 0) =>
        /\ ~result.raised
        /\ DOMAIN result.component_scores = Components
        /\ \A c \in Components :
              0 <= result.component_scores[c] /\ result.component_scores[c] <= 100 * Q
        /\ 0 <= result.campaign_score /\ result.campaign_score <= 100 * QF

\* A run where nothing failed, the burst component is at its maximum with
\* more bursts than the cap of 30 points covers, and the final score is 100.
C1_Witness ==
    /\ Returned /\ nposts > 0 /\ failed = 0
    /\ outcome.burst_detection.kleinberg_bursts > 3
    /\ result.component_scores["burst_activity"] = 100 * Q
    /\ result.campaign_score = 100 * QF

\* C2: score_campaign on an empty post list returns campaign_score 0.0,
\* severity 'low', all component scores 0, no alert, exactly the one
\* recommendation 'No data to analyze' and human_review_required false,
\* without running any detector.
C2_EmptyInput ==
    (spc = "done" /\ nposts = 0) =>
        /\ ~result.raised
        /\ result.campaign_score = 0
        /\ result.severity = "low"
        /\ DOMAIN result.component_scores = Components
        /\ \A c \in Components : result.component_scores[c] = 0
        /\ result.alerts = <<>>
        /\ result.recommendations = <<"No data to analyze">>
        /\ result.human_review_required = FALSE
        /\ result.detector_calls = 0
        /\ DOMAIN result.analysis_results = {}

C2_Witness == spc = "done" /\ nposts = 0 /\ Len(result.recommendations) = 1

\* The alert each component raises and the threshold (points) it must exceed.
AlertOf == [toxicity |-> "high_toxicity", stance |-> "anti_india_narrative",
            coordination |-> "coordinated_behavior", bot_network |-> "bot_network",
            burst_activity |-> "burst_activity"]
AlertAbove == [toxicity |-> 70, stance |-> 60, coordination |-> 60,
               bot_network |-> 50, burst_activity |-> 50]

AlertTypes(r) == {r.alerts[i][1] : i \in DOMAIN r.alerts}

\* C4: the alert list holds exactly one alert for each component whose
\* score strictly exceeds its threshold (toxicity>70, stance>60,
\* coordination>60, bot_network>50, burst_activity>50) and no other: none
\* at the threshold, none for narrative_threat, at most five.
C4_AlertsExact ==
    (spc = "done" /\ nposts > 0) =>
        /\ ~result.raised
        /\ AlertTypes(result) =
              {AlertOf[c] : c \in {d \in DOMAIN AlertOf :
                                     result.component_scores[d] > AlertAbove[d] * Q}}
        /\ Len(result.alerts) = Cardinality(AlertTypes(result))
        /\ Len(result.alerts) <= 5

\* Coordination exactly at its threshold raises no alert although narrative
\* threat is at 100 and another component does raise one.
C4_Witness ==
    /\ Returned /\ nposts > 0
    /\ result.component_scores["coordination"] = 60 * Q
    /\ result.component_scores["narrative_threat"] = 100 * Q
    /\ "coordinated_behavior" \notin AlertTypes(result)
    /\ "bot_network" \in AlertTypes(result)

\* C30: whenever score_campaign emits an alert of severity 'critical' (the
\* coordinated_behavior alert), the same result has
\* human_review_required = true.
C30_CriticalAlertReviewed ==
    (Returned /\ ~result.raised) =>
        ((\E i \in DOMAIN result.alerts : result.alerts[i][2] = "critical")
            => result.human_review_required)

\* The component a sub-analysis feeds.
ComponentOf == [toxicity |-> "toxicity", stance |-> "stance",
                coordination |-> "coordination", bot_detection |-> "bot_network",
                bot_network |-> "bot_network", burst_detection |-> "burst_activity",
                narrative_clustering |-> "narrative_threat"]

ResultFields == {"raised", "campaign_score", "severity", "component_scores",
                 "analysis_results", "alerts", "recommendations",
                 "human_review_required", "detector_calls"}

\* C5 as claimed: if any one sub-analysis raises, score_campaign does not
\* raise and returns a complete result in which the failed component's
\* score is 0.
C5_FailedComponentZero ==
    (spc = "done" /\ failed > 0) =>
        /\ ~result.raised
        /\ DOMAIN result = ResultFields
        /\ result.component_scores[ComponentOf[Steps[failed]]] = 0

\* C5 as amended: if any one sub-analysis raises, score_campaign does not
\* raise and returns a complete result; the failed component's score is 0,
\* except when the step that raises is the bot-network analysis: then
\* network_score counts as 0 and bot_network is 40 x the share of authors
\* with bot_likelihood_score > 0.7 among the per-author results.
C5_FailedStepContributesZero ==
    (spc = "done" /\ failed > 0) =>
        /\ ~result.raised
        /\ DOMAIN result = ResultFields
        /\ IF Steps[failed] = "bot_network"
           THEN result.component_scores["bot_network"] * Len(outcome.bot_detection)
                    = 40 * Q * CountIf(outcome.bot_detection, HighBot)
           ELSE result.component_scores[ComponentOf[Steps[failed]]] = 0

\* The bot-network analysis raised and bot_network is not 0.
C5_Witness ==
    /\ Returned /\ failed > 0 /\ Steps[failed] = "bot_network"
    /\ result.component_scores["bot_network"] > 0

\* C6 as claimed: a failure in one sub-analysis never changes the other
\* components: every component score other than the failed one equals its
\* value in the run of the same input where nothing fails.
C6_FailureIsolated ==
    (spc = "done" /\ failed > 0) =>
        /\ ~result.raised
        /\ \A c \in Components \ {ComponentOf[Steps[failed]]} :
              result.component_scores[c]
                  = ScoreCampaignResult(nposts, outcome, 0).component_scores[c]

\* ------------------------------------------------------------------------
\* Claims about _determine_severity (specification SpecSeverity)
\* ------------------------------------------------------------------------
Bands == {"low", "medium", "high", "critical"}
\* The bands as the claim states them, in tenths of a point.
InBand(b, s) ==
    CASE b = "low" -> 0 <= s /\ s < 300
      [] b = "medium" -> 300 <= s /\ s < 600
      [] b = "high" -> 600 <= s /\ s < 850
      [] b = "critical" -> 850 <= s /\ s <= 1000

text_similarity_threshold == 80          \* hundredths
timing_threshold_minutes == 30
behavioral_similarity_threshold == 70    \* hundredths
min_accounts_for_coordination == 3
min_coordination_score == 60             \* hundredths

\* self.weights of the detector, in hundredths
coord_weights == [text_similarity |-> 30, timing_coordination |-> 25,
                  behavioral_patterns |-> 20, network_structure |-> 15,
                  amplification_patterns |-> 10]

Range(f) == {f[i] : i \in DOMAIN f}

Pairs2(n) == (n * (n - 1)) \div 2

RECURSIVE SeqOfSet(_)
\* The elements of a finite set of integers in increasing order.
SeqOfSet(S) ==
    IF S = {} THEN <<>>
    ELSE LET x == CHOOSE y \in S : \A z \in S : y <= z
         IN  <<x>> \o SeqOfSet(S \ {x})

\* a/c > d/b for a, d >= 0 and c, b > 0, without forming the products
RECURSIVE FracGreater(_, _, _, _)
FracGreater(a, c, d, b) ==
    LET qa == a \div c  qd == d \div b
        ra == a % c     rd == d % b
    IN  IF qa # qd THEN qa > qd
        ELSE IF ra = 0 THEN FALSE
        ELSE IF rd = 0 THEN TRUE
        ELSE FracGreater(b, rd, c, ra)

\* _extract_authors_from_posts: the accounts in order of first appearance
RECURSIVE ExtractAuthorsAcc(_, _)
ExtractAuthorsAcc(ps, acc) ==
    IF ps = <<>> THEN acc
    ELSE ExtractAuthorsAcc(Tail(ps),
                           IF Head(ps).author \in Range(acc) THEN acc
                           ELSE Append(acc, Head(ps).author))

ExtractAuthorsFromPosts(ps) == ExtractAuthorsAcc(ps, <<>>)

\* ---- text similarity ----
\* The vocabulary TfidfVectorizer(stop_words='english') keeps of a text.  The
\* texts of the model are one-word texts, the empty text and a text of stop
\* words only.
Tokens(t) == IF t \in {"", "the"} THEN {} ELSE {t}

\* cosine_similarity of the tf-idf rows of two texts, in hundredths: 1 for
\* two equal texts with a non-empty vocabulary, 0 for texts without a common
\* term (a text without vocabulary has a zero row).
TextSimilarity(t1, t2) ==
    IF Tokens(t1) # {} /\ Tokens(t1) = Tokens(t2) THEN 100 ELSE 0

\* post_metadata: the indices of the posts whose stripped text is not empty
TextPosts(ps) == SeqOfSet({i \in DOMAIN ps : ps[i].text # ""})

\* similar_pairs in loop order (i ascending, then j ascending)
RECURSIVE SimilarPairsFrom(_, _, _, _)
SimilarPairsFrom(ps, meta, i, j) ==
    IF i > Len(meta) THEN <<>>
    ELSE IF j > Len(meta) THEN SimilarPairsFrom(ps, meta, i + 1, i + 2)
    ELSE LET sim == TextSimilarity(ps[meta[i]].text, ps[meta[j]].text)
         IN  (IF sim > text_similarity_threshold
              THEN << [post1 |-> ps[meta[i]].id, post2 |-> ps[meta[j]].id,
                       author1 |-> ps[meta[i]].author, author2 |-> ps[meta[j]].author,
                       similarity |-> sim] >>
              ELSE <<>>)
             \o SimilarPairsFrom(ps, meta, i, j + 1)

\* np.mean of the similarities of the pairs lying inside a group (all
\* similarities of the model are equal, so the mean is exact)
AvgSimilarity(pairs, members) ==
    LET inside == {k \in DOMAIN pairs :
                     pairs[k].post1 \in members /\ pairs[k].post2 \in members}
    IN  SumSeq([k \in 1..Cardinality(inside) |->
                   pairs[SeqOfSet(inside)[k]].similarity]) \div Cardinality(inside)

\* _group_similar_content, the loop over similar_pairs: a group is
\* [posts, authors, avg_similarity], posts the post ids in insertion order
\* and authors the usernames beside them.
RECURSIVE GroupFrom(_, _, _)
GroupFrom(pairs, k, groups) ==
    IF k > Len(pairs) THEN groups
    ELSE LET pr == pairs[k]
             hits == {g \in DOMAIN groups :
                        pr.post1 \in Range(groups[g].posts)
                        \/ pr.post2 \in Range(groups[g].posts)}
         IN  IF hits # {}
             THEN LET g == CHOOSE h \in hits : \A h2 \in hits : h <= h2
                      add1 == pr.post1 \notin Range(groups[g].posts)
                      posts1 == IF add1 THEN Append(groups[g].posts, pr.post1)
                                ELSE groups[g].posts
                      auth1 == IF add1 THEN Append(groups[g].authors, pr.author1)
                               ELSE groups[g].authors
                      add2 == pr.post2 \notin Range(posts1)
                      posts2 == IF add2 THEN Append(posts1, pr.post2) ELSE posts1
                      auth2 == IF add2 THEN Append(auth1, pr.author2) ELSE auth1
                  IN  GroupFrom(pairs, k + 1,
                          [groups EXCEPT ![g] =
                              [posts |-> posts2, authors |-> auth2,
                               avg_similarity |-> AvgSimilarity(pairs, Range(posts2))]])
             ELSE GroupFrom(pairs, k + 1,
                      Append(groups, [posts |-> <<pr.post1, pr.post2>>,
                                      authors |-> <<pr.author1, pr.author2>>,
                                      avg_similarity |-> pr.similarity]))

\* sorted(groups, key=size, reverse=True): stable, larger groups first
RECURSIVE InsertBySize(_, _)
InsertBySize(sorted, g) ==
    IF sorted = <<>> THEN <<g>>
    ELSE IF Len(Head(sorted).posts) >= Len(g.posts)
         THEN <<Head(sorted)>> \o InsertBySize(Tail(sorted), g)
         ELSE <<g>> \o sorted

RECURSIVE SortBySize(_)
SortBySize(groups) ==
    IF groups = <<>> THEN <<>>
    ELSE InsertBySize(SortBySize(SubSeq(groups, 1, Len(groups) - 1)),
                      groups[Len(groups)])

GroupSimilarContent(pairs) == SortBySize(GroupFrom(pairs, 1, <<>>))

\* _detect_text_similarity_coordination.  strength is a fraction
\* [num, den]; fit_transform raises on an empty vocabulary and the except
\* clause leaves the initial dictionary.
DetectTextSimilarityCoordination(ps) ==
    LET meta == TextPosts(ps)
        empty == [similar_content_groups |-> <<>>, similar_pairs |-> 0,
                  coordination_strength |-> [num |-> 0, den |-> 1]]
    IN  IF Len(ps) < 2 \/ Len(meta) < 2 THEN empty
        ELSE IF \A i \in DOMAIN meta : Tokens(ps[meta[i]].text) = {} THEN empty
        ELSE LET pairs == SimilarPairsFrom(ps, meta, 1, 2)
             IN  [similar_content_groups |-> GroupSimilarContent(pairs),
                  similar_pairs |-> Len(pairs),
                  coordination_strength |->
                      [num |-> Len(pairs), den |-> Max(1, Pairs2(Len(meta)))]]

\* ---- timing ----
\* list.sort(key=timestamp): stable
RECURSIVE InsertByTime(_, _)
InsertByTime(sorted, p) ==
    IF sorted = <<>> THEN <<p>>
    ELSE IF Head(sorted).ts <= p.ts
         THEN <<Head(sorted)>> \o InsertByTime(Tail(sorted), p)
         ELSE <<p>> \o sorted

RECURSIVE SortByTime(_)
SortByTime(ps) ==
    IF ps = <<>> THEN <<>>
    ELSE InsertByTime(SortByTime(SubSeq(ps, 1, Len(ps) - 1)), ps[Len(ps)])

TimingCluster(cluster) ==
    [posts |-> [i \in DOMAIN cluster |-> cluster[i].id],
     authors |-> [i \in DOMAIN cluster |-> cluster[i].author],
     start_time |-> cluster[1].ts,
     end_time |-> cluster[Len(cluster)].ts,
     duration_minutes |-> cluster[Len(cluster)].ts - cluster[1].ts,
     size |-> Len(cluster),
     unique_authors |-> Cardinality({cluster[i].author : i \in DOMAIN cluster})]

\* the clustering loop of _detect_timing_coordination, from post i on
RECURSIVE TimingClustersFrom(_, _, _)
TimingClustersFrom(tp, i, current) ==
    LET keep == IF Len(current) >= min_accounts_for_coordination
                THEN <<TimingCluster(current)>> ELSE <<>>
    IN  IF i > Len(tp) THEN keep
        ELSE IF tp[i].ts - current[Len(current)].ts <= timing_threshold_minutes
        THEN TimingClustersFrom(tp, i + 1, Append(current, tp[i]))
        ELSE keep \o TimingClustersFrom(tp, i + 1, <<tp[i]>>)

\* _detect_timing_coordination
DetectTimingCoordination(ps) ==
    IF Len(ps) < 2
    THEN [timing_clusters |-> <<>>, coordination_strength |-> [num |-> 0, den |-> 1]]
    ELSE LET tp == SortByTime(ps)
             clusters == TimingClustersFrom(tp, 2, <<tp[1]>>)
         IN  [timing_clusters |-> clusters,
              coordination_strength |->
                  [num |-> SumSeq([c \in DOMAIN clusters |-> clusters[c].size]),
                   den |-> Len(tp)]]

\* ---- behavioural similarity ----
\* math.log(v + 1) in hundredths, rounded, for the counts of the model
Ln1p(v) == CASE v = 0 -> 0 [] v = 200 -> 530

\* _calculate_account_age: (now - created).days, 0 without a creation date
CalculateAccountAge(profile, clock) ==
    IF ~profile.has_created THEN 0 ELSE clock - profile.created

\* len(text_content)
TextLength(t) == CASE t = "" -> 0 [] t = "the" -> 3 [] OTHER -> 5

\* _extract_behavioral_features of account a, reduced to the eight features
\* _calculate_behavioral_similarity reads, after its log scaling.  Every
\* entry is in hundredths and multiplied by the number k of the account's
\* posts (1 if none), which turns the means into sums and leaves the cosine
\* unchanged.
BehavioralVector(a, profile, ps, clock) ==
    LET mine == SelectSeq(ps, LAMBDA p : p.author = a)
        k == Max(1, Len(mine))
        Total(F(_)) == SumSeq([i \in DOMAIN mine |-> F(mine[i])])
        Length(p) == TextLength(p.text)
        Hashtags(p) == Cardinality(p.hashtags)
        Mentions(p) == Cardinality(p.mentions)
        Likes(p) == p.likes
        Retweets(p) == p.retweets
    IN  << Ln1p(profile.followers_count) * k,
           Ln1p(profile.following_count) * k,
           CalculateAccountAge(profile, clock) * 100 * k,
           Total(Length) * 100,
           Total(Hashtags) * 100,
           Total(Mentions) * 100,
           Ln1p(Total(Likes) \div k) * k,
           Ln1p(Total(Retweets) \div k) * k >>

Dot(v, w) == SumSeq([i \in DOMAIN v |-> v[i] * w[i]])

\* _calculate_behavioral_similarity(...) > behavioral_similarity_threshold:
\* the cosine is 0 if a norm is 0, and dot/(norm1*norm2) > 0.7 otherwise
BehaviorallySimilar(v, w) ==
    /\ Dot(v, v) # 0 /\ Dot(w, w) # 0
    /\ Dot(v, w) > 0
    /\ FracGreater(10 * Dot(v, w), (behavioral_similarity_threshold \div 10) * Dot(v, v),
                   (behavioral_similarity_threshold \div 10) * Dot(w, w), 10 * Dot(v, w))

\* _detect_behavioral_coordination over the author list au
DetectBehavioralCoordination(au, prof, ps, clock) ==
    IF Len(au) < 2
    THEN [similar_profiles |-> {}, coordination_strength |-> [num |-> 0, den |-> 1]]
    ELSE LET vec == [i \in DOMAIN au |-> BehavioralVector(au[i], prof[au[i]], ps, clock)]
             similar == {pr \in (DOMAIN au) \X (DOMAIN au) :
                           pr[1] < pr[2] /\ BehaviorallySimilar(vec[pr[1]], vec[pr[2]])}
         IN  [similar_profiles |-> {<<au[pr[1]], au[pr[2]]>> : pr \in similar},
              coordination_strength |->
                  [num |-> Cardinality(similar), den |-> Max(1, Pairs2(Len(au)))]]

\* ---- network structure ----
\* _build_interaction_network: the edges; a mention links its author and the
\* mentioned account when both are nodes and differ.
InteractionEdges(ps, au) ==
    {e \in SUBSET Range(au) :
        /\ Cardinality(e) = 2
        /\ \E i \in DOMAIN ps : \E m \in ps[i].mentions : e = {ps[i].author, m}}

Neighbours(E, v) == {w \in UNION E : {v, w} \in E}

\* _analyze_network_structure: the list suspicious_patterns, as a set
SuspiciousPatterns(nodes, E) ==
    LET n == Cardinality(nodes)
        Deg(v) == Cardinality(Neighbours(E, v))
        Tri(v) == Cardinality({e \in E : e \subseteq Neighbours(E, v)})
        \* local clustering coefficients over the common denominator K
        K == LcmUpTo(n)
        Local(v) == IF Deg(v) < 2 THEN 0
                    ELSE (2 * Tri(v) * K) \div (Deg(v) * (Deg(v) - 1))
        order == SeqOfSet(nodes)
        clustering == SumSeq([i \in DOMAIN order |-> Local(order[i])])
        max_degree == IF nodes = {} THEN 0
                      ELSE CHOOSE d \in {Deg(v) : v \in nodes} :
                               \A v \in nodes : Deg(v) <= d
    IN  IF n < 2 THEN {}
        ELSE (IF 10 * clustering > 7 * n * K
                 /\ 10 * 2 * Cardinality(E) < 3 * n * (n - 1)
              THEN {"high_clustering_low_density"} ELSE {})
             \cup
             (IF max_degree * n > 3 * 2 * Cardinality(E) /\ max_degree > 10
              THEN {"star_network_structure"} ELSE {})

\* ---- amplification ----
\* _detect_amplification_patterns
DetectAmplificationPatterns(ps) ==
    LET tags == UNION {ps[i].hashtags : i \in DOMAIN ps}
        Group(h) == {i \in DOMAIN ps : h \in ps[i].hashtags}
        First(h) == CHOOSE t \in {ps[i].ts : i \in Group(h)} :
                        \A i \in Group(h) : t <= ps[i].ts
        Last(h) == CHOOSE t \in {ps[i].ts : i \in Group(h)} :
                        \A i \in Group(h) : t >= ps[i].ts
        rapid == {h \in tags : Cardinality(Group(h)) >= 5
                               /\ Last(h) - First(h) < 2 * 60}
    IN  [rapid_amplification_events |-> rapid,
         amplification_strength |->
             [num |-> Cardinality(rapid), den |-> Max(1, Cardinality(tags))]]

\* ---- fusion ----
\* A fraction [num, den] in lowest terms.
Reduce(num, den) ==
    LET g == Gcd(num, den) IN [num |-> num \div g, den |-> den \div g]

\* x + w/100 * f for fractions x, f and a weight w in hundredths
AddWeighted(x, w, f) ==
    Reduce(x.num * 100 * f.den + w * f.num * x.den, x.den * 100 * f.den)

\* min(1.0, x)
ClampOne(x) == IF x.num > x.den THEN [num |-> 1, den |-> 1] ELSE x

\* x > y for fractions
Greater(x, y) == FracGreater(x.num, x.den, y.num, y.den)

\* _calculate_coordination_score: the fused score, an exact fraction
CalculateCoordinationScore(components) ==
    LET network_indicators == Cardinality(components.network_structure)
        network_strength == ClampOne([num |-> network_indicators, den |-> 3])
        s1 == AddWeighted([num |-> 0, den |-> 1], coord_weights.text_similarity,
                          components.text_similarity.coordination_strength)
        s2 == AddWeighted(s1, coord_weights.timing_coordination,
                          components.timing_coordination.coordination_strength)
        s3 == AddWeighted(s2, coord_weights.behavioral_patterns,
                          components.behavioral_patterns.coordination_strength)
        s4 == AddWeighted(s3, coord_weights.network_structure, network_strength)
        s5 == AddWeighted(s4, coord_weights.amplification_patterns,
                          components.amplification_patterns.amplification_strength)
    IN  ClampOne(s5)

\* _identify_coordinated_groups
IdentifyCoordinatedGroups(text_coord, timing_coord) ==
    LET tg == SelectSeq(text_coord.similar_content_groups,
                        LAMBDA g : Len(g.posts) >= min_accounts_for_coordination)
        tc == SelectSeq(timing_coord.timing_clusters,
                        LAMBDA c : c.size >= min_accounts_for_coordination)
    IN  [i \in DOMAIN tg |->
            [type |-> "text_similarity",
             members |-> tg[i].authors,
             size |-> Len(tg[i].posts),
             risk_level |-> IF tg[i].avg_similarity > 90 THEN "high" ELSE "medium"]]
        \o
        [i \in DOMAIN tc |->
            [type |-> "timing_coordination",
             members |-> SeqOfSet(Range(tc[i].authors)),
             size |-> tc[i].size,
             risk_level |-> IF tc[i].duration_minutes < 5 THEN "high" ELSE "medium"]]

\* _empty_coordination_result
EmptyCoordinationResult ==
    [returned |-> TRUE,
     total_posts |-> 0,
     total_authors |-> 0,
     coordination_score |-> [num |-> 0, den |-> 1],
     suspected_coordination |-> FALSE,
     text_coordination |-> [coordination_strength |-> [num |-> 0, den |-> 1]],
     timing_coordination |-> [coordination_strength |-> [num |-> 0, den |-> 1]],
     behavioral_coordination |-> [coordination_strength |-> [num |-> 0, den |-> 1]],
     network_analysis |-> {},
     amplification_patterns |-> [amplification_strength |-> [num |-> 0, den |-> 1]],
     coordinated_groups |-> <<>>]

\* detect_coordination(posts) at wall-clock time `clock`; the authors are
\* extracted from the posts.
DetectCoordinationResult(ps, prof, clock) ==
    IF Len(ps) < min_accounts_for_coordination THEN EmptyCoordinationResult
    ELSE LET au == ExtractAuthorsFromPosts(ps)
             text_coordination == DetectTextSimilarityCoordination(ps)
             timing_coordination == DetectTimingCoordination(ps)
             behavioral_coordination == DetectBehavioralCoordination(au, prof, ps, clock)
             network_analysis == SuspiciousPatterns(Range(au), InteractionEdges(ps, au))
             amplification_patterns == DetectAmplificationPatterns(ps)
             coordination_score ==
                 CalculateCoordinationScore(
                     [text_similarity |-> text_coordination,
                      timing_coordination |-> timing_coordination,
                      behavioral_patterns |-> behavioral_coordination,
                      network_structure |-> network_analysis,
                      amplification_patterns |-> amplification_patterns])
         IN  [returned |-> TRUE,
              total_posts |-> Len(ps),
              total_authors |-> Len(au),
              coordination_score |-> coordination_score,
              suspected_coordination |->
                  Greater(coordination_score, [num |-> min_coordination_score, den |-> 100]),
              text_coordination |-> text_coordination,
              timing_coordination |-> timing_coordination,
              behavioral_coordination |-> behavioral_coordination,
              network_analysis |-> network_analysis,
              amplification_patterns |-> amplification_patterns,
              coordinated_groups |->
                  IdentifyCoordinatedGroups(text_coordination, timing_coordination)]

\* ------------------------------------------------------------------------
\* Specification SpecCoord: detect_coordination(posts) called on a post set,
\* and called again on the same post set, on the same post set after the
\* wall clock has advanced a day, or on the post set with further posts
\* injected.  `coord` is the result of the latest call and `baseline` the
\* result of the call before it.
\*
\* The posts are listed in posting order, all carry the campaign hashtag
\* and no mention; accounts and texts are named in order of first
\* appearance.  An account has no creation date and nobody following, or was
\* created on day 0, or has 200 followers.
\* ------------------------------------------------------------------------
MaxPosts == 3
MaxInjected == 2
FirstDay == 5
MaxNow == 6

Accounts == 1..(MaxPosts + MaxInjected)
Texts == <<"alpha", "bravo">>
Times == {0, 10, 60}
InjectTimes == {0, 10, 200}

ProfileKinds ==
    { [followers_count |-> 0, following_count |-> 0, has_created |-> FALSE, created |-> 0],
      [followers_count |-> 0, following_count |-> 0, has_created |-> TRUE, created |-> 0],
      [followers_count |-> 200, following_count |-> 0, has_created |-> FALSE, created |-> 0] }

NoProfile == [followers_count |-> 0, following_count |-> 0, has_created |-> FALSE, created |-> 0]

\* sequences over 1..n that name their values in order of first appearance
FirstAppearance(n, top) ==
    {s \in [1..n -> 1..top] :
        \A i \in 1..n : \A v \in 1..(s[i] - 1) : \E j \in 1..(i - 1) : s[j] = v}

Post(i, t, a, at) ==
    [id |-> i, text |-> t, author |-> a, ts |-> at, hashtags |-> {"tag"},
     mentions |-> {}, likes |-> 0, retweets |-> 0]

PostSets ==
    UNION {{[i \in 1..n |-> Post(i, Texts[tx[i]], au[i], at[i])] :
               tx \in FirstAppearance(n, Len(Texts)),
               au \in FirstAppearance(n, n),
               at \in SortedSeqs(Times, n)} : n \in 2..MaxPosts}

AuthorsOf(ps) == {ps[i].author : i \in DOMAIN ps}

InitCoord ==
    /\ posts \in PostSets
    /\ profiles \in {f \in [Accounts -> ProfileKinds] :
                        \A a \in Accounts \ AuthorsOf(posts) : f[a] = NoProfile}
    /\ now = FirstDay
    /\ baseline = NoResult
    /\ coord = NoResult
    /\ phase = "ready"
    /\ IdleScore /\ IdleSeverity /\ IdleBurst /\ IdleBot /\ IdleGroup
    /\ IdleSeries /\ IdleAttr

\* result = detector.detect_coordination(posts)
DetectCoordination ==
    /\ phase \in {"ready", "called", "ticked", "injected"}
    /\ baseline' = coord
    /\ coord' = DetectCoordinationResult(posts, profiles, now)
    /\ phase' = CASE phase = "ready" -> "called"
                  [] phase = "called" -> "again_same"
                  [] phase = "ticked" -> "again_ticked"
                  [] phase = "injected" -> "again_injected"
    /\ UNCHANGED <<posts, profiles, now>>
    /\ UNCHANGED scoreVars /\ UNCHANGED sevVars
    /\ UNCHANGED burstVars /\ UNCHANGED botVars /\ UNCHANGED groupVars
    /\ UNCHANGED seriesVars /\ UNCHANGED attrVars

\* datetime.now() moves on to the next day between two calls
Tick ==
    /\ phase = "called"
    /\ now < MaxNow
    /\ now' = now + 1
    /\ phase' = "ticked"
    /\ UNCHANGED <<posts, profiles, baseline, coord>>
    /\ UNCHANGED scoreVars /\ UNCHANGED sevVars
    /\ UNCHANGED burstVars /\ UNCHANGED botVars /\ UNCHANGED groupVars
    /\ UNCHANGED seriesVars /\ UNCHANGED attrVars

\* The caller adds k copies of a text of the post set, written by k new
\* accounts of one kind, ten minutes apart.
InjectDuplicates ==
    /\ phase = "called"
    /\ \E k \in 1..MaxInjected, t \in {posts[i].text : i \in DOMAIN posts},
          t0 \in InjectTimes, kind \in ProfileKinds :
          LET n == Len(posts)
              first == 1 + Cardinality(AuthorsOf(posts))
          IN  /\ posts' = posts \o [i \in 1..k |->
                                       Post(n + i, t, first + i - 1, t0 + 10 * (i - 1))]
              /\ profiles' = [a \in Accounts |->
                                 IF a \in first..(first + k - 1) THEN kind
                                 ELSE profiles[a]]
    /\ phase' = "injected"
    /\ UNCHANGED <<now, baseline, coord>>
    /\ UNCHANGED scoreVars /\ UNCHANGED sevVars
    /\ UNCHANGED burstVars /\ UNCHANGED botVars /\ UNCHANGED groupVars
    /\ UNCHANGED seriesVars /\ UNCHANGED attrVars

NextCoord == DetectCoordination \/ Tick \/ InjectDuplicates

SpecCoord == InitCoord /\ [][NextCoord]_vars

\* `coord` is what detect_coordination returned for the present `posts`
Analysed == phase \in {"called", "again_same", "again_ticked", "again_injected"}

\* C7: detect_coordination is deterministic: a second call on the identical
\* post set returns a result identical in every field, whatever the wall
\* clock shows at the second call.
C7_Deterministic ==
    phase \in {"again_same", "again_ticked"} => coord = baseline

\* C8: adding posts that share one identical text, come from distinct new
\* accounts and lie within the timing threshold of each other never yields
\* a coordination_score lower than the baseline's.
C8_InjectionMonotone ==
    phase = "again_injected"
        => ~Greater(baseline.coordination_score, coord.coordination_score)

\* exactly three posts by three distinct accounts with the same text and
\* timestamps within 10 minutes of each other
Scenario(ps) ==
    /\ Len(ps) = 3
    /\ Cardinality(AuthorsOf(ps)) = 3
    /\ \A i, j \in DOMAIN ps : ps[i].text = ps[j].text /\ ps[i].ts - ps[j].ts <= 10

\* C9: in the coordination scenario detect_coordination returns
\* suspected_coordination = true and a coordinated group of type
\* text_similarity with size >= 3 and risk_level high.
C9_Scenario ==
    (Analysed /\ Scenario(posts))
        => /\ coord.suspected_coordination
           /\ \E g \in DOMAIN coord.coordinated_groups :
                 /\ coord.coordinated_groups[g].type = "text_similarity"
                 /\ coord.coordinated_groups[g].size >= 3
                 /\ coord.coordinated_groups[g].risk_level = "high"

\* C10: suspected_coordination = true only with coordination_score > 0.6
\* and at least 3 distinct accounts among the analysed posts.
C10_SuspectedNeedsThreeAccounts ==
    (Analysed /\ coord.suspected_coordination)
        => /\ Greater(coord.coordination_score, [num |-> 6, den |-> 10])
           /\ Cardinality(AuthorsOf(posts)) >= 3

\* the cluster is the run tp[a..b] of the time-sorted posts, every gap inside
\* it is within the threshold and the gaps around it are not
MaximalRun(tp, cluster, a, b) ==
    /\ cluster.posts = [i \in 1..(b - a + 1) |-> tp[a + i - 1].id]
    /\ \A i \in a..(b - 1) : tp[i + 1].ts - tp[i].ts <= timing_threshold_minutes
    /\ a > 1 => tp[a].ts - tp[a - 1].ts > timing_threshold_minutes
    /\ b < Len(tp) => tp[b + 1].ts - tp[b].ts > timing_threshold_minutes

\* the timing clusters of the latest result (the empty result has none)
RetainedClusters == Get(coord.timing_coordination, "timing_clusters", <<>>)

TimingClustersAreRuns ==
    LET tp == SortByTime(posts)
        clusters == RetainedClusters
    IN  /\ \A c \in DOMAIN clusters :
              \E a \in 1..Len(tp), b \in 1..Len(tp) :
                  a <= b /\ MaximalRun(tp, clusters[c], a, b)
        /\ \A c1, c2 \in DOMAIN clusters :
              c1 # c2 => Range(clusters[c1].posts) \cap Range(clusters[c2].posts) = {}

\* C21: every timing cluster detect_coordination retains is a maximal run of
\* the time-sorted posts with consecutive gaps of at most 30 minutes, the
\* clusters are pairwise disjoint, and each holds posts of at least 3
\* distinct authors.
C21_TimingClusters ==
    Analysed =>
        /\ TimingClustersAreRuns
        /\ \A c \in DOMAIN RetainedClusters :
              Cardinality(Range(RetainedClusters[c].authors)) >= 3

\* ------------------------------------------------------------------------
\* BurstDetector
\*
\* A post is [posted_at, hashtags, author].  posted_at is
\*   [kind |-> "valid", at |-> m]   a datetime, or a string that parses,
\*                                  m minutes after the start of hour 0;
\*   [kind |-> "none", at |-> 0]    None, or the key is missing;
\*   [kind |-> "invalid", at |-> 0] a string pd.to_datetime rejects.
\* hashtags is the set of the post's hashtags and author its username.
\*
\* The z-score and peak lists are computed from the hourly series inside
\* their own try/except blocks and feed nothing but two counts of
\* burst_summary; the model leaves them out of a non-empty result.
\* ------------------------------------------------------------------------
Valid(m) == [kind |-> "valid", at |-> m]
NoTimestamp == [kind |-> "none", at |-> 0]
Unparseable == [kind |-> "invalid", at |-> 0]

HourOf(m) == m \div 60

MinOf(S) == CHOOSE x \in S : \A y \in S : x <= y
MaxOf(S) == CHOOSE x \in S : \A y \in S : x >= y

\* _prepare_time_series: [first, count], the hour of the first bucket and
\* the hourly counts; count = <<>> is the empty DataFrame.  A string that
\* does not parse raises inside the try block and the except clause returns
\* the empty DataFrame; None and a missing key are skipped.
PrepareTimeSeries(ps) ==
    LET valid == {i \in DOMAIN ps : ps[i].posted_at.kind = "valid"}
        hours == {HourOf(ps[i].posted_at.at) : i \in valid}
    IN  IF \E i \in DOMAIN ps : ps[i].posted_at.kind = "invalid"
        THEN [first |-> 0, count |-> <<>>]
        ELSE IF valid = {} THEN [first |-> 0, count |-> <<>>]
        ELSE [first |-> MinOf(hours),
              count |-> [k \in 1..(MaxOf(hours) - MinOf(hours) + 1) |->
                            Cardinality({i \in valid :
                                HourOf(ps[i].posted_at.at) = MinOf(hours) + k - 1})]]

\* ---- the DP burst model (_kleinberg_burst_detection) ----
s_factor == 2
gamma == 1
num_states == 3
\* Costs are kept in units of 1/LnScale.
LnScale == 100000

\* math.log of a prime, times LnScale
LnPrime(q) ==
    CASE q = 2 -> 69315 [] q = 3 -> 109861 [] q = 5 -> 160944 [] q = 7 -> 194591
      [] q = 11 -> 239790 [] q = 13 -> 256495 [] q = 17 -> 283321 [] q = 19 -> 294444
      [] q = 23 -> 313549 [] q = 29 -> 336730 [] q = 31 -> 343399 [] q = 37 -> 361092

\* math.log of a positive integer, times LnScale
RECURSIVE Ln(_)
Ln(k) ==
    IF k = 1 THEN 0
    ELSE LET q == MinOf({d \in 2..k : k % d = 0})
         IN  LnPrime(q) + Ln(k \div q)

RECURSIVE Pow(_, _)
Pow(b, e) == IF e = 0 THEN 1 ELSE b * Pow(b, e - 1)

\* rates[state] = base_rate * s_factor ** state, times LnScale
Rate(total, n, state) == (total * Pow(s_factor, state) * LnScale) \div n

\* math.log(rates[state]), times LnScale
LnRate(total, n, state) == Ln(total) - Ln(n) + state * Ln(s_factor)

\* emission cost of count c in a state
EmissionCost(c, total, n, state) ==
    IF c > 0 THEN Rate(total, n, state) - c * LnRate(total, n, state)
    ELSE Rate(total, n, state)

TransitionCost(prev_state, curr_state) ==
    IF curr_state > prev_state THEN (curr_state - prev_state) * gamma * LnScale ELSE 0

States == 0..(num_states - 1)

\* the first index of a least entry (np.argmin, and the strict < of the loop)
ArgMin(f) == MinOf({x \in DOMAIN f : \A y \in DOMAIN f : f[x] <= f[y]})

\* costs[t, curr] and paths[t, curr] for curr, curr+1, ..: the cheapest
\* predecessor of each state (the first one on a tie), as a sequence of
\* [cost, path] indexed by state + 1
RECURSIVE TableRow(_, _, _, _, _)
TableRow(prevRow, c, total, n, curr) ==
    IF curr = num_states THEN <<>>
    ELSE LET via == [prev \in States |->
                        prevRow[prev + 1].cost + TransitionCost(prev, curr)
                        + EmissionCost(c, total, n, curr)]
             best == ArgMin(via)
         IN  << [cost |-> via[best], path |-> best] >>
             \o TableRow(prevRow, c, total, n, curr + 1)

\* the rows of hours 1..t of the DP table
RECURSIVE FillTable(_, _, _)
FillTable(counts, total, t) ==
    IF t = 1
    THEN << [k \in 1..num_states |->
                [cost |-> EmissionCost(counts[1], total, Len(counts), k - 1),
                 path |-> 0]] >>
    ELSE LET rows == FillTable(counts, total, t - 1)
         IN  Append(rows, TableRow(rows[t - 1], counts[t], total, Len(counts), 0))

\* a backtracking that ignores paths and stays in the state of the last hour
BacktrackWithoutPaths(rows, t, state) == [i \in 1..t |-> state]

\* backtracking: the states of hours 1..t, given the state of hour t
RECURSIVE Backtrack(_, _, _)
Backtrack(rows, t, state) ==
    IF t = 1 THEN <<state>>
    ELSE Append(Backtrack(rows, t - 1, rows[t][state + 1].path), state)

\* total cost of the cheapest path into each state of the last hour
LastCosts(rows) == [state \in States |-> rows[Len(rows)][state + 1].cost]

\* the state sequence chosen for an hourly series with a positive base rate
BurstStates(counts) ==
    LET rows == FillTable(counts, SumSeq(counts), Len(counts))
    IN  Backtrack(rows, Len(counts), ArgMin(LastCosts(rows)))

\* a burst record whose intensity is the sum of the states of its hours
BurstWithSummedStates(states, counts, first, b, e) ==
    [start_time |-> first + b - 1,
     end_time |-> first + e - 1,
     duration_hours |-> e - b + 1,
     intensity |-> [num |-> SumSeq(SubSeq(states, b, e)), den |-> 1],
     total_posts |-> SumSeq(SubSeq(counts, b, e))]

\* the burst ending before hour i (or at the last hour), started at hour b
Burst(states, counts, first, b, e) ==
    [start_time |-> first + b - 1,
     end_time |-> first + e - 1,
     duration_hours |-> e - b + 1,
     intensity |-> [num |-> SumSeq(SubSeq(states, b, e)), den |-> e - b + 1],
     total_posts |-> SumSeq(SubSeq(counts, b, e))]

\* the extraction loop without the append after the loop: a burst still
\* open at the last hour is lost
RECURSIVE ExtractBurstsInsideLoop(_, _, _, _, _)
ExtractBurstsInsideLoop(states, counts, first, i, b) ==
    IF i > Len(states) THEN <<>>
    ELSE IF states[i] > 0 /\ b = 0
         THEN ExtractBurstsInsideLoop(states, counts, first, i + 1, i)
    ELSE IF states[i] = 0 /\ b # 0
         THEN <<Burst(states, counts, first, b, i - 1)>>
              \o ExtractBurstsInsideLoop(states, counts, first, i + 1, 0)
    ELSE ExtractBurstsInsideLoop(states, counts, first, i + 1, b)

\* the extraction loop from hour i on; b is burst_start (0: None)
RECURSIVE ExtractBursts(_, _, _, _, _)
ExtractBursts(states, counts, first, i, b) ==
    IF i > Len(states)
    THEN IF b # 0 THEN <<Burst(states, counts, first, b, Len(states))>> ELSE <<>>
    ELSE IF states[i] > 0 /\ b = 0 THEN ExtractBursts(states, counts, first, i + 1, i)
    ELSE IF states[i] = 0 /\ b # 0
         THEN <<Burst(states, counts, first, b, i - 1)>>
              \o ExtractBursts(states, counts, first, i + 1, 0)
    ELSE ExtractBursts(states, counts, first, i + 1, b)

\* _kleinberg_burst_detection(time_series)
KleinbergBurstDetection(series) ==
    IF Len(series.count) < 3 THEN <<>>
    ELSE IF SumSeq(series.count) = 0 THEN <<>>
    ELSE ExtractBursts(BurstStates(series.count), series.count, series.first, 1, 0)

\* ---- burst characteristics and coordination indicators ----
\* np.std(xs) < 1.0 for a non-empty list of integers:
\* the variance (n * sum x^2 - (sum x)^2) / n^2 is below 1
StdBelowOne(xs) ==
    LET n == Len(xs)
        sq == SumSeq([i \in DOMAIN xs |-> xs[i] * xs[i]])
    IN  n * sq - SumSeq(xs) * SumSeq(xs) < n * n

\* the posts _analyze_burst_content matches to one burst: start_time and
\* end_time are the starts of the first and the last hourly bucket
PostsInBurst(ps, burst) ==
    {i \in DOMAIN ps : /\ ps[i].posted_at.kind = "valid"
                       /\ burst.start_time * 60 <= ps[i].posted_at.at
                       /\ ps[i].posted_at.at <= burst.end_time * 60}

\* start_time <= post_time raises TypeError when pd.to_datetime returned None
BurstContentRaises(ps, kb) ==
    kb # <<>> /\ \E i \in DOMAIN ps : ps[i].posted_at.kind = "none"

\* _analyze_burst_content, where it does not raise
AnalyzeBurstContent(ps, kb) ==
    LET burst_posts == UNION {PostsInBurst(ps, kb[b]) : b \in DOMAIN kb}
        tags == UNION {ps[i].hashtags : i \in burst_posts}
        Uses(h) == Cardinality({i \in burst_posts : h \in ps[i].hashtags})
        authors == {ps[i].author : i \in burst_posts}
    IN  IF burst_posts = {}
        THEN [burst_posts |-> {}, hashtag_analysis |-> <<>>, author_analysis |-> <<>>]
        ELSE [burst_posts |-> burst_posts,
              hashtag_analysis |->
                  IF tags = {} THEN <<>>
                  ELSE [top_count |-> MaxOf({Uses(h) : h \in tags}),
                        unique_hashtags |-> Cardinality(tags)],
              author_analysis |->
                  [unique_authors |-> Cardinality(authors),
                   posts_per_author |-> [num |-> Cardinality(burst_posts),
                                         den |-> Cardinality(authors)]]]

\* the larger of two fractions
MaxFrac(x, y) == IF FracGreater(y.num, y.den, x.num, x.den) THEN y ELSE x

RECURSIVE MaxIntensity(_)
MaxIntensity(kb) ==
    IF Len(kb) = 1 THEN kb[1].intensity
    ELSE MaxFrac(kb[1].intensity, MaxIntensity(Tail(kb)))

\* _categorize_burst_intensity; burst_types lists low (2.0, 3.0),
\* medium (3.0, 4.0), high (4.0, 6.0) and extreme (6.0, inf)
CategorizeBurstIntensity(x) ==
    CASE 2 * x.den <= x.num /\ x.num < 3 * x.den -> "low"
      [] 3 * x.den <= x.num /\ x.num < 4 * x.den -> "medium"
      [] 4 * x.den <= x.num /\ x.num < 6 * x.den -> "high"
      [] 6 * x.den <= x.num -> "extreme"
      [] OTHER -> "low"

\* burst_levels: the number of bursts of each level that occurs
BurstLevels(kb) ==
    [level \in {CategorizeBurstIntensity(kb[b].intensity) : b \in DOMAIN kb} |->
        Cardinality({b \in DOMAIN kb :
            CategorizeBurstIntensity(kb[b].intensity) = level})]

\* _analyze_burst_characteristics, where it does not raise
AnalyzeBurstCharacteristics(ps, kb) ==
    [burst_summary |-> [kleinberg_bursts |-> Len(kb)],
     intensity_distribution |->
         IF kb = <<>> THEN <<>>
         ELSE [max_intensity |-> MaxIntensity(kb),
               burst_levels |-> BurstLevels(kb)],
     \* interval_statistics: the hours between consecutive burst starts
     temporal_patterns |->
         IF kb = <<>> THEN <<>>
         ELSE [interval_statistics |->
                  [b \in 1..(Len(kb) - 1) |-> kb[b + 1].start_time - kb[b].start_time]],
     content_analysis |-> AnalyzeBurstContent(ps, kb)]

\* a dictionary that has the key (an empty dictionary is <<>>)
Has(d, key) == key \in DOMAIN d

\* _detect_coordination_patterns: scores in hundredths
DetectCoordinationPatterns(ps, analysis) ==
    LET intervals == Get(analysis.temporal_patterns, "interval_statistics", <<>>)
        hashtag_analysis == analysis.content_analysis.hashtag_analysis
        author_analysis == analysis.content_analysis.author_analysis
        synchronized == intervals # <<>> /\ StdBelowOne(intervals)
        repetitive == /\ Has(hashtag_analysis, "top_count")
                      /\ 2 * hashtag_analysis.top_count > Len(ps)
        hyperactive == /\ Has(author_analysis, "posts_per_author")
                       /\ author_analysis.posts_per_author.num
                              > 5 * author_analysis.posts_per_author.den
        extreme == /\ Has(analysis.intensity_distribution, "max_intensity")
                   /\ analysis.intensity_distribution.max_intensity.num
                          > 4 * analysis.intensity_distribution.max_intensity.den
        score == (IF synchronized THEN 30 ELSE 0) + (IF repetitive THEN 20 ELSE 0)
                 + (IF hyperactive THEN 30 ELSE 0) + (IF extreme THEN 20 ELSE 0)
    IN  [suspected_coordination |-> score > 50,
         coordination_score |-> Min(100, score),
         indicators |-> (IF synchronized THEN {"synchronized_timing"} ELSE {})
                        \cup (IF repetitive THEN {"repetitive_hashtags"} ELSE {})
                        \cup (IF hyperactive THEN {"hyperactive_authors"} ELSE {})
                        \cup (IF extreme THEN {"extreme_burst_intensity"} ELSE {})]

\* _empty_burst_result
EmptyBurstResult ==
    [raised |-> FALSE,
     total_posts |-> 0,
     time_span_hours |-> 0,
     kleinberg_bursts |-> <<>>,
     zscore_anomalies |-> <<>>,
     peak_bursts |-> <<>>,
     burst_analysis |-> <<>>,
     coordination_indicators |->
         [suspected_coordination |-> FALSE, coordination_score |-> 0, indicators |-> {}],
     time_series |-> <<>>]

Raised == [raised |-> TRUE]

\* detect_bursts with the guard on the number of valid timestamps
DetectBurstsResultCountingTimestamps(ps) ==
    IF ps = <<>> THEN EmptyBurstResult
    ELSE LET time_series == PrepareTimeSeries(ps)
             kleinberg_bursts == KleinbergBurstDetection(time_series)
             burst_analysis == AnalyzeBurstCharacteristics(ps, kleinberg_bursts)
         IN  IF SumSeq(time_series.count) < 3 THEN EmptyBurstResult
             ELSE IF BurstContentRaises(ps, kleinberg_bursts) THEN Raised
             ELSE [raised |-> FALSE,
                   total_posts |-> Len(ps),
                   time_span_hours |-> 24,
                   kleinberg_bursts |-> kleinberg_bursts,
                   burst_analysis |-> burst_analysis,
                   coordination_indicators |->
                       DetectCoordinationPatterns(ps, burst_analysis),
                   time_series |-> time_series]

\* detect_bursts(posts)
DetectBurstsResult(ps) ==
    IF ps = <<>> THEN EmptyBurstResult
    ELSE LET time_series == PrepareTimeSeries(ps)
             kleinberg_bursts == KleinbergBurstDetection(time_series)
             burst_analysis == AnalyzeBurstCharacteristics(ps, kleinberg_bursts)
         IN  IF Len(time_series.count) < 3 THEN EmptyBurstResult
             ELSE IF BurstContentRaises(ps, kleinberg_bursts) THEN Raised
             ELSE [raised |-> FALSE,
                   total_posts |-> Len(ps),
                   time_span_hours |-> 24,
                   kleinberg_bursts |-> kleinberg_bursts,
                   burst_analysis |-> burst_analysis,
                   coordination_indicators |->
                       DetectCoordinationPatterns(ps, burst_analysis),
                   time_series |-> time_series]

\* detect_hashtag_bursts(posts, hashtag); Lower is str.lower on the
\* hashtags of the model
Lower(h) == CASE h = "#Crisis" -> "#crisis" [] OTHER -> h

DetectHashtagBurstsResult(ps, hashtag) ==
    LET hashtag_posts ==
            SelectSeq(ps, LAMBDA p : Lower(hashtag) \in {Lower(h) : h \in p.hashtags})
        res == DetectBurstsResult(hashtag_posts)
    IN  IF hashtag_posts = <<>> THEN EmptyBurstResult
        ELSE IF res.raised THEN Raised
        ELSE [f \in DOMAIN res \cup {"hashtag", "hashtag_posts"} |->
                 CASE f = "hashtag" -> hashtag
                   [] f = "hashtag_posts" -> Len(hashtag_posts)
                   [] OTHER -> res[f]]

\* ------------------------------------------------------------------------
\* Specification SpecBurst: one call of detect_bursts(posts), or of
\* detect_hashtag_bursts(posts, hashtag), on a list of up to MaxBurstPosts
\* posts (listed up to order: the detector counts and selects, it never
\* reads positions), or on the 48-hour series of the unit tests.
\* ------------------------------------------------------------------------
MaxBurstPosts == 5

Timestamps == <<Valid(0), Valid(30), Valid(120), Valid(240), NoTimestamp, Unparseable>>
TagSets == << {"#crisis"}, {"#Crisis", "#other"} >>

\* the k-th kind of post; the account is the one that uses these hashtags
PostKind(k) ==
    [posted_at |-> Timestamps[((k - 1) \div Len(TagSets)) + 1],
     hashtags |-> TagSets[((k - 1) % Len(TagSets)) + 1],
     author |-> ((k - 1) % Len(TagSets)) + 1]

BurstPostLists ==
    UNION {{[i \in 1..n |-> PostKind(ix[i])] :
               ix \in SortedSeqs(1..(Len(Timestamps) * Len(TagSets)), n)} :
           n \in 0..MaxBurstPosts}

\* the sample series: ScenarioHours hours with BaselinePerHour posts an
\* hour, and BurstPerHour posts an hour from BurstFrom to BurstTo
ScenarioHours == 48
BaselinePerHour == 2
BurstPerHour == 15
BurstFrom == 12
BurstTo == 15

ScenarioPerHour(h) == IF h \in BurstFrom..BurstTo THEN BurstPerHour ELSE BaselinePerHour

RECURSIVE ScenarioFrom(_)
ScenarioFrom(h) ==
    IF h = ScenarioHours THEN <<>>
    ELSE [j \in 1..ScenarioPerHour(h) |->
             [posted_at |-> Valid(h * 60 + ((j - 1) * 60) \div ScenarioPerHour(h)),
              hashtags |-> IF h \in BurstFrom..BurstTo THEN {"#crisis"} ELSE {"#other"},
              author |-> ((j - 1) % 5) + 1]]
         \o ScenarioFrom(h + 1)

ScenarioPosts == ScenarioFrom(0)

Hashtags == {"#crisis", "#absent"}

InitBurst ==
    /\ burstPosts \in BurstPostLists \cup {ScenarioPosts}
    /\ burstTag \in {""} \cup Hashtags
    /\ burstOut = NoResult
    /\ IdleScore /\ IdleSeverity /\ IdleCoord /\ IdleBot /\ IdleGroup
    /\ IdleSeries /\ IdleAttr

\* result = detector.detect_bursts(posts)
DetectBursts ==
    /\ burstOut = NoResult
    /\ burstTag = ""
    /\ burstOut' = DetectBurstsResult(burstPosts)
    /\ UNCHANGED <<burstPosts, burstTag>>
    /\ UNCHANGED scoreVars /\ UNCHANGED sevVars /\ UNCHANGED coordVars
    /\ UNCHANGED botVars /\ UNCHANGED groupVars
    /\ UNCHANGED seriesVars /\ UNCHANGED attrVars

\* result = detector.detect_hashtag_bursts(posts, hashtag)
DetectHashtagBursts ==
    /\ burstOut = NoResult
    /\ burstTag # ""
    /\ burstOut' = DetectHashtagBurstsResult(burstPosts, burstTag)
    /\ UNCHANGED <<burstPosts, burstTag>>
    /\ UNCHANGED scoreVars /\ UNCHANGED sevVars /\ UNCHANGED coordVars
    /\ UNCHANGED botVars /\ UNCHANGED groupVars
    /\ UNCHANGED seriesVars /\ UNCHANGED attrVars

NextBurst == DetectBursts \/ DetectHashtagBursts

SpecBurst == InitBurst /\ [][NextBurst]_vars

\* detect_bursts has been called on burstPosts
BurstsDetected == burstOut # NoResult /\ burstTag = ""

ValidPosts(ps) == SelectSeq(ps, LAMBDA p : p.posted_at.kind = "valid")

HoursSpanned(ps) ==
    LET hours == {HourOf(ps[i].posted_at.at) : i \in {j \in DOMAIN ps : ps[j].posted_at.kind = "valid"}}
    IN  IF hours = {} \/ \E i \in DOMAIN ps : ps[i].posted_at.kind = "invalid" THEN 0
        ELSE MaxOf(hours) - MinOf(hours) + 1

C12_NoTimestampKeepsCount ==
    (BurstsDetected /\ burstPosts # <<>> /\ ValidPosts(burstPosts) = <<>>)
        => /\ ~burstOut.raised
           /\ burstOut.total_posts = Len(burstPosts)
           /\ burstOut.kleinberg_bursts = <<>>

\* C13: when valid timestamps are mixed with unparseable posted_at values,
\* the hourly series and the bursts are those of the posts with valid
\* timestamps alone.
C13_OnlyOffendingDropped ==
    (BurstsDetected /\ ValidPosts(burstPosts) # <<>>
                    /\ ValidPosts(burstPosts) # burstPosts)
        => /\ ~burstOut.raised
           /\ burstOut.time_series = DetectBurstsResult(ValidPosts(burstPosts)).time_series
           /\ burstOut.kleinberg_bursts
                  = DetectBurstsResult(ValidPosts(burstPosts)).kleinberg_bursts

\* C14: detect_bursts never raises on non-empty input.
C14_NeverRaises ==
    (BurstsDetected /\ burstPosts # <<>>) => ~burstOut.raised

\* C15: on the 48-hour series detect_bursts emits a DP burst that overlaps
\* hours 12 to 15 and has intensity >= 3.0.
C15_BurstRecall ==
    (BurstsDetected /\ burstPosts = ScenarioPosts)
        => /\ ~burstOut.raised
           /\ \E b \in DOMAIN burstOut.kleinberg_bursts :
                 LET burst == burstOut.kleinberg_bursts[b]
                 IN  /\ burst.start_time <= BurstTo /\ burst.end_time >= BurstFrom
                     /\ burst.intensity.num >= 3 * burst.intensity.den

\* the hours of the valid timestamps of a post list
ValidHours(ps) ==
    {HourOf(ps[i].posted_at.at) : i \in {j \in DOMAIN ps : ps[j].posted_at.kind = "valid"}}

\* the series is the gap-free hourly histogram of the valid timestamps
HourlyHistogram(series, ps) ==
    /\ Has(series, "count")
    /\ series.first = MinOf(ValidHours(ps))
    /\ Len(series.count) = MaxOf(ValidHours(ps)) - MinOf(ValidHours(ps)) + 1
    /\ \A k \in DOMAIN series.count :
          series.count[k] =
              Cardinality({i \in DOMAIN ps :
                  /\ ps[i].posted_at.kind = "valid"
                  /\ HourOf(ps[i].posted_at.at) = series.first + k - 1})
    /\ SumSeq(series.count) = Len(ValidPosts(ps))

\* C24: the hourly series built by detect_bursts has one bucket for every
\* hour from the hour of the earliest valid timestamp to the hour of the
\* latest one, without gap; each count is the number of valid-timestamp
\* posts of that hour, and the counts sum to the number of such posts.
\* (detect_bursts reports the series when it has at least 3 buckets.)
C24_HourlyHistogram ==
    (/\ BurstsDetected
     /\ ValidHours(burstPosts) # {}
     /\ MaxOf(ValidHours(burstPosts)) - MinOf(ValidHours(burstPosts)) + 1 >= 3)
        => (~burstOut.raised => HourlyHistogram(burstOut.time_series, burstPosts))

\* detect_bursts returned a result with at least one DP burst
BurstsReported ==
    BurstsDetected /\ ~burstOut.raised /\ burstOut.kleinberg_bursts # <<>>

\* the posts _analyze_burst_content selected as in-burst posts
InBurstPosts == burstOut.burst_analysis.content_analysis.burst_posts

\* the number of in-burst posts that carry the hashtag
InBurstUses(h) == Cardinality({i \in InBurstPosts : h \in burstPosts[i].hashtags})

\* C25: repetitive_hashtags is flagged exactly when the most frequent
\* hashtag among the in-burst posts occurs in more than 50% of the
\* in-burst posts, whatever the number of posts outside the bursts.
C25_RepetitiveHashtags ==
    BurstsReported =>
        ("repetitive_hashtags" \in burstOut.coordination_indicators.indicators
            <=> \E h \in UNION {burstPosts[i].hashtags : i \in InBurstPosts} :
                    2 * InBurstUses(h) > Cardinality(InBurstPosts))

\* the burst detector returned a result (of either entry point)
BurstResult == burstOut # NoResult /\ ~burstOut.raised

\* C27: every DP burst intensity lies in [1, 2]; extreme_burst_intensity
\* is never flagged, every burst is categorised 'low' and the
\* coordination_score of the burst detector never exceeds 0.8.
C27_IntensityBounded ==
    BurstResult =>
        /\ \A b \in DOMAIN burstOut.kleinberg_bursts :
              LET x == burstOut.kleinberg_bursts[b].intensity
              IN  x.den <= x.num /\ x.num <= 2 * x.den
        /\ "extreme_burst_intensity" \notin burstOut.coordination_indicators.indicators
        /\ burstOut.kleinberg_bursts # <<>> =>
              DOMAIN burstOut.burst_analysis.intensity_distribution.burst_levels = {"low"}
        /\ burstOut.coordination_indicators.coordination_score <= 80

\* a burst of several hours, all in the highest state, counted as 'low'
C27_Witness ==
    /\ BurstResult
    /\ \E b \in DOMAIN burstOut.kleinberg_bursts :
          /\ burstOut.kleinberg_bursts[b].duration_hours > 1
          /\ burstOut.kleinberg_bursts[b].intensity.num
                 = 2 * burstOut.kleinberg_bursts[b].intensity.den
    /\ "low" \in DOMAIN burstOut.burst_analysis.intensity_distribution.burst_levels

\* the in-burst posts selected from the hourly buckets of one burst
SelectedFor(burst) ==
    {i \in InBurstPosts :
        /\ burst.start_time <= HourOf(burstPosts[i].posted_at.at)
        /\ HourOf(burstPosts[i].posted_at.at) <= burst.end_time}

\* C28: the posts selected for the content analysis of a burst are the
\* posts counted in its hourly buckets: their number equals the burst's
\* total_posts, a post late in the last hour of the burst included.
C28_SelectedAreCounted ==
    BurstsReported =>
        \A b \in DOMAIN burstOut.kleinberg_bursts :
            Cardinality(SelectedFor(burstOut.kleinberg_bursts[b]))
                = burstOut.kleinberg_bursts[b].total_posts

\* C19: detect_hashtag_bursts(posts, h) returns a result whose 'hashtag' is
\* h and whose 'hashtag_posts' is the number of posts carrying h, compared
\* case-insensitively, also when no post carries h.
C19_HashtagFields ==
    (burstOut # NoResult /\ burstTag # "")
        => /\ ~burstOut.raised
           /\ Has(burstOut, "hashtag") /\ Has(burstOut, "hashtag_posts")
           /\ burstOut.hashtag = burstTag
           /\ burstOut.hashtag_posts
                  = Cardinality({i \in DOMAIN burstPosts :
                        \E h \in burstPosts[i].hashtags : Lower(h) = Lower(burstTag)})

\* ------------------------------------------------------------------------
\* BotDetector (bot_detection.py)
\*
\* An author is a record [username, bio, location, url, profile_image_url,
\* followers_count, following_count, account_created_at]: the username is a
\* sequence of characters, the bio is [length, promotional] (promotional:
\* it contains follow, subscribe, link or click), the three other profile
\* fields are present or not, account_created_at is a day number or NoDate.
\* A post is [posted_at, text_content, hashtags, mentions, likes_count,
\* retweets_count, replies_count]: posted_at in minutes from midnight of
\* day 0, the text a sequence of lower-case words, hashtags and mentions
\* the lengths of the two lists.
\* The seven signals are exact multiples of 1/SignalUnit and the weighted
\* score is an exact multiple of 1/ScoreUnit.  The program computes the
\* weighted score as a floating-point sum, which can fall one rounding
\* error below or above the exact sum (0.4999999999999999 for 0.5): the
\* result carries the sign of that error in the field rounding, and the
\* model leaves it open, except that a sum of zeros is exact.
\* ------------------------------------------------------------------------
feature_weights ==
    [username_pattern |-> 15, profile_completeness |-> 10,
     posting_frequency |-> 20, temporal_patterns |-> 15,
     content_diversity |-> 15, engagement_patterns |-> 10,
     network_behavior |-> 15]
bot_threshold == 70
suspicious_threshold == 50

\* 1/SignalUnit divides a tenth and 1/4.8; ScoreUnit = 100 * SignalUnit
SignalUnit == 480
ScoreUnit == 48000

\* n tenths as a signal
Tenths(n) == n * (SignalUnit \div 10)

NoAuthor == [given |-> FALSE]
NoDate == [given |-> FALSE]

Digits == {"0", "1", "2", "3", "4", "5", "6", "7", "8", "9"}
Letters == {"a", "b", "c", "d", "e", "f", "g", "h", "i", "j", "k", "l", "m",
            "n", "o", "p", "q", "r", "s", "t", "u", "v", "w", "x", "y", "z"}

\* str.lower on the characters of the model
LowerChar(c) == CASE c = "U" -> "u" [] OTHER -> c
LowerName(u) == [i \in DOMAIN u |-> LowerChar(u[i])]

\* re.search(r'user\d+[a-z]*$', username)
MatchesUserDigits(u) ==
    \E i \in 1..Len(u), j \in 1..Len(u) :
        /\ i + 4 <= j
        /\ SubSeq(u, i, i + 3) = <<"u", "s", "e", "r">>
        /\ \A k \in (i + 4)..j : u[k] \in Digits
        /\ \A k \in (j + 1)..Len(u) : u[k] \in Letters

\* re.search(r'[a-z]{2}\d+[a-z]{2}', username)
MatchesLettersDigitsLetters(u) ==
    \E i \in 1..Len(u), j \in 1..Len(u) :
        /\ i + 2 <= j /\ j + 2 <= Len(u)
        /\ u[i] \in Letters /\ u[i + 1] \in Letters
        /\ \A k \in (i + 2)..j : u[k] \in Digits
        /\ u[j + 1] \in Letters /\ u[j + 2] \in Letters

\* pattern in username
Contains(u, w) ==
    \E i \in 1..Len(u) : i + Len(w) - 1 <= Len(u) /\ SubSeq(u, i, i + Len(w) - 1) = w

default_patterns ==
    { <<"a", "c", "c", "o", "u", "n", "t">>, <<"u", "s", "e", "r">>,
      <<"p", "e", "r", "s", "o", "n">>, <<"r", "e", "a", "l">>,
      <<"o", "f", "f", "i", "c", "i", "a", "l">> }

\* _analyze_username_pattern
AnalyzeUsernamePattern(author) ==
    LET username == LowerName(author.username)
        digits == Cardinality({i \in DOMAIN username : username[i] \in Digits})
        bot_score ==
            (IF MatchesUserDigits(username) THEN 4 ELSE 0)
          + (IF 2 * digits > Len(username) THEN 3 ELSE 0)
          + (IF MatchesLettersDigitsLetters(username) THEN 3 ELSE 0)
          + (IF 10 * Cardinality(Range(username)) < 6 * Len(username) THEN 2 ELSE 0)
          + (IF \E w \in default_patterns : Contains(username, w) THEN 2 ELSE 0)
    IN  IF username = <<>> THEN Tenths(5) ELSE Tenths(Min(10, bot_score))

\* _analyze_profile_completeness: 1 - completeness / 4.8
AnalyzeProfileCompleteness(author) ==
    LET fields == (IF author.bio.length > 0 THEN 1 ELSE 0)
                + (IF author.location THEN 1 ELSE 0)
                + (IF author.url THEN 1 ELSE 0)
                + (IF author.profile_image_url THEN 1 ELSE 0)
        quality == IF author.bio.length > 0
                   THEN (IF author.bio.length > 50 THEN 5 ELSE 0)
                      + (IF ~author.bio.promotional THEN 3 ELSE 0)
                   ELSE 0
    IN  SignalUnit - (10 * fields + quality) * (SignalUnit \div 48)

\* timestamps.sort()
RECURSIVE SortInts(_)
SortInts(s) ==
    IF s = <<>> THEN <<>>
    ELSE LET i == CHOOSE k \in DOMAIN s : \A j \in DOMAIN s : s[k] <= s[j]
         IN  <<s[i]>> \o SortInts(SubSeq(s, 1, i - 1) \o SubSeq(s, i + 1, Len(s)))

SortedTimestamps(ps) == SortInts([i \in DOMAIN ps |-> ps[i].posted_at])

MinutesPerDay == 1440

\* _analyze_posting_frequency
AnalyzePostingFrequency(ps) ==
    LET timestamps == SortedTimestamps(ps)
        n == Len(timestamps)
        time_span == timestamps[n] - timestamps[1]
    IN  IF n < 2 THEN 0
        ELSE IF time_span = 0 THEN Tenths(10)
        ELSE IF n * MinutesPerDay > 50 * time_span THEN Tenths(10)
        ELSE IF n * MinutesPerDay > 20 * time_span THEN Tenths(8)
        ELSE IF n * MinutesPerDay > 10 * time_span THEN Tenths(6)
        ELSE IF 10 * n * MinutesPerDay < time_span THEN Tenths(3)
        ELSE 0

\* interval_std / interval_mean < 0.1 for intervals with a positive mean:
\* 100 * (k * sum x^2 - (sum x)^2) < (sum x)^2
VeryRegular(intervals) ==
    LET k == Len(intervals)
        sum == SumSeq(intervals)
        sq == SumSeq([i \in DOMAIN intervals |-> intervals[i] * intervals[i]])
    IN  sum > 0 /\ k * sq - sum * sum <= (sum * sum - 1) \div 100

\* _analyze_temporal_patterns
AnalyzeTemporalPatterns(ps) ==
    LET timestamps == SortedTimestamps(ps)
        n == Len(timestamps)
        intervals == [i \in 1..(n - 1) |-> timestamps[i + 1] - timestamps[i]]
        minutes == {timestamps[i] % 60 : i \in 1..n}
        night_hours == {i \in 1..n : (timestamps[i] \div 60) % 24 <= 6}
        bot_score ==
            (IF VeryRegular(intervals) THEN 5 ELSE 0)
          + (IF Cardinality(minutes) = 1 THEN 4 ELSE 0)
          + (IF night_hours = {} /\ n > 10 THEN 3 ELSE 0)
    IN  IF n < 5 THEN 0 ELSE Tenths(Min(10, bot_score))

RECURSIVE Concat(_)
Concat(ss) == IF ss = <<>> THEN <<>> ELSE Head(ss) \o Concat(Tail(ss))

\* _analyze_content_diversity
AnalyzeContentDiversity(ps) ==
    LET all == [i \in DOMAIN ps |-> ps[i].text_content]
        texts == SelectSeq(all, LAMBDA t : t # <<>>)
        words == Concat(texts)
        hashtag_counts == [i \in DOMAIN ps |-> ps[i].hashtags]
        bot_score ==
            (IF 2 * Cardinality(Range(texts)) < Len(texts) THEN 4 ELSE 0)
          + (IF Len(words) > 0 /\ 10 * Cardinality(Range(words)) < 3 * Len(words)
             THEN 3 ELSE 0)
          + (IF SumSeq(hashtag_counts) > 5 * Len(ps) THEN 3 ELSE 0)
    IN  IF Len(texts) < 2 THEN 0 ELSE Tenths(Min(10, bot_score))

TotalEngagement(p) == p.likes_count + p.retweets_count + p.replies_count

\* _analyze_engagement_patterns; the mean like ratio is compared over the
\* common denominator of the ratios
AnalyzeEngagementPatterns(ps) ==
    LET engaged == SelectSeq(ps, LAMBDA p : TotalEngagement(p) > 0)
        k == Len(engaged)
        total == SumSeq([i \in DOMAIN engaged |-> TotalEngagement(engaged[i])])
        D == LcmUpTo(MaxOf({TotalEngagement(engaged[i]) : i \in DOMAIN engaged}))
        like_ratios == SumSeq([i \in DOMAIN engaged |->
                          (engaged[i].likes_count * D) \div TotalEngagement(engaged[i])])
        bot_score ==
            (IF total < k THEN 4 ELSE 0)
          + (IF 10 * like_ratios > 9 * k * D THEN 3 ELSE 0)
    IN  IF k = 0 THEN 0 ELSE Tenths(Min(10, bot_score))

\* _analyze_network_behavior
AnalyzeNetworkBehavior(author, ps) ==
    LET followers == author.followers_count
        following == author.following_count
        mention_counts == [i \in DOMAIN ps |-> ps[i].mentions]
        bot_score ==
            (IF following > 0 /\ followers > 100 * following THEN 3
             ELSE IF following > 0 /\ 100 * followers < following THEN 4
             ELSE 0)
          + (IF following > 2000 /\ followers < 100 THEN 4 ELSE 0)
          + (IF ps # <<>> /\ SumSeq(mention_counts) > 3 * Len(ps) THEN 3 ELSE 0)
    IN  Tenths(Min(10, bot_score))

\* _calculate_account_age: (now - created_date).days, 0 without a date
BotAccountAge(created_at, today) ==
    IF created_at = NoDate THEN 0 ELSE today - created_at.day

\* _extract_bot_features: the features the detector reads again
ExtractBotFeatures(author, ps, today) ==
    [account_age_days |-> BotAccountAge(author.account_created_at, today),
     followers_count |-> author.followers_count,
     following_count |-> author.following_count,
     posts_in_dataset |-> Len(ps)]

\* _generate_bot_indicators
GenerateBotIndicators(scores) ==
    {x \in {"suspicious_username_pattern"} : scores.username_pattern > Tenths(5)}
    \cup {x \in {"incomplete_profile"} : scores.profile_completeness > Tenths(7)}
    \cup {x \in {"unusual_posting_frequency"} : scores.posting_frequency > Tenths(6)}
    \cup {x \in {"automated_timing_patterns"} : scores.temporal_patterns > Tenths(5)}
    \cup {x \in {"low_content_diversity"} : scores.content_diversity > Tenths(5)}
    \cup {x \in {"unusual_engagement_patterns"} : scores.engagement_patterns > Tenths(5)}
    \cup {x \in {"suspicious_network_behavior"} : scores.network_behavior > Tenths(5)}

\* _empty_bot_result
EmptyBotResult ==
    [bot_likelihood_score |-> 0,
     rounding |-> 0,
     classification |-> "unknown",
     risk_level |-> "low",
     component_scores |-> [none |-> 0],
     features |-> [none |-> 0],
     indicators |-> {}]

BotSignals == DOMAIN feature_weights

RECURSIVE WeightedSum(_, _)
WeightedSum(scores, names) ==
    IF names = {} THEN 0
    ELSE LET c == CHOOSE x \in names : TRUE
         IN  scores[c] * feature_weights[c] + WeightedSum(scores, names \ {c})

\* bot_likelihood >= threshold for the sum with rounding error err and a
\* threshold in hundredths
AtLeast(bot_likelihood, err, threshold) ==
    \/ 100 * bot_likelihood > threshold * ScoreUnit
    \/ 100 * bot_likelihood = threshold * ScoreUnit /\ err >= 0

\* calculate_bot_likelihood with thresholds that exclude their lower edge
CalculateBotLikelihoodStrict(author, ps, today, err) ==
    IF author = NoAuthor THEN EmptyBotResult
    ELSE LET scores ==
                 [username_pattern |-> AnalyzeUsernamePattern(author),
                  profile_completeness |-> AnalyzeProfileCompleteness(author),
                  posting_frequency |-> AnalyzePostingFrequency(ps),
                  temporal_patterns |-> AnalyzeTemporalPatterns(ps),
                  content_diversity |-> AnalyzeContentDiversity(ps),
                  engagement_patterns |-> AnalyzeEngagementPatterns(ps),
                  network_behavior |-> AnalyzeNetworkBehavior(author, ps)]
             bot_likelihood == WeightedSum(scores, BotSignals)
             rounding == IF bot_likelihood = 0 THEN 0 ELSE err
             high == 100 * bot_likelihood > bot_threshold * ScoreUnit
                     \/ (100 * bot_likelihood = bot_threshold * ScoreUnit /\ rounding > 0)
             medium == 100 * bot_likelihood > suspicious_threshold * ScoreUnit
                       \/ (100 * bot_likelihood = suspicious_threshold * ScoreUnit /\ rounding > 0)
         IN  [bot_likelihood_score |-> bot_likelihood,
              rounding |-> rounding,
              classification |-> IF high THEN "likely_bot"
                                 ELSE IF medium THEN "suspicious" ELSE "likely_human",
              risk_level |-> IF high THEN "high" ELSE IF medium THEN "medium" ELSE "low",
              component_scores |-> scores,
              features |-> ExtractBotFeatures(author, ps, today),
              indicators |-> GenerateBotIndicators(scores)]

\* calculate_bot_likelihood(author, posts); err is the sign of the rounding
\* error of the weighted sum
CalculateBotLikelihood(author, ps, today, err) ==
    IF author = NoAuthor THEN EmptyBotResult
    ELSE LET scores ==
                 [username_pattern |-> AnalyzeUsernamePattern(author),
                  profile_completeness |-> AnalyzeProfileCompleteness(author),
                  posting_frequency |-> AnalyzePostingFrequency(ps),
                  temporal_patterns |-> AnalyzeTemporalPatterns(ps),
                  content_diversity |-> AnalyzeContentDiversity(ps),
                  engagement_patterns |-> AnalyzeEngagementPatterns(ps),
                  network_behavior |-> AnalyzeNetworkBehavior(author, ps)]
             bot_likelihood == WeightedSum(scores, BotSignals)
             rounding == IF bot_likelihood = 0 THEN 0 ELSE err
             high == AtLeast(bot_likelihood, rounding, bot_threshold)
             medium == AtLeast(bot_likelihood, rounding, suspicious_threshold)
         IN  [bot_likelihood_score |-> bot_likelihood,
              rounding |-> rounding,
              classification |-> IF high THEN "likely_bot"
                                 ELSE IF medium THEN "suspicious" ELSE "likely_human",
              risk_level |-> IF high THEN "high" ELSE IF medium THEN "medium" ELSE "low",
              component_scores |-> scores,
              features |-> ExtractBotFeatures(author, ps, today),
              indicators |-> GenerateBotIndicators(scores)]

\* 1 - abs(val1 - val2) / max(val1, val2, 1), a fraction
FeatureSimilarity(val1, val2) ==
    LET max_val == Max(val1, Max(val2, 1))
        diff == IF val1 >= val2 THEN val1 - val2 ELSE val2 - val1
    IN  Reduce(max_val - diff, max_val)

\* x + y for fractions
AddFrac(x, y) == Reduce(x.num * y.den + y.num * x.den, x.den * y.den)

\* _calculate_bot_similarity: np.mean of the three feature similarities
CalculateBotSimilarity(bot1, bot2) ==
    LET features1 == bot1.features
        features2 == bot2.features
        total == AddFrac(FeatureSimilarity(features1.followers_count,
                                           features2.followers_count),
                 AddFrac(FeatureSimilarity(features1.following_count,
                                           features2.following_count),
                         FeatureSimilarity(features1.account_age_days,
                                           features2.account_age_days)))
    IN  Reduce(total.num, 3 * total.den)

\* ---- analyze_bot_network ----
\* the posts whose author carries the platform_user_id of the account
\* (author_id is p.get('author', {}).get('platform_user_id'))
AuthorPosts(author, ps) ==
    SelectSeq(ps, LAMBDA p : p.author_id = author.platform_user_id)

\* result['author'] = author
WithAuthor(r, author) ==
    [f \in DOMAIN r \cup {"author"} |-> IF f = "author" THEN author ELSE r[f]]

\* r['bot_likelihood_score'] > 0.5
IsPotentialBot(r) ==
    \/ 2 * r.bot_likelihood_score > ScoreUnit
    \/ 2 * r.bot_likelihood_score = ScoreUnit /\ r.rounding > 0

\* the creation days of the potential bots that carry account_created_at
CreationTimes(potential_bots) ==
    {potential_bots[i].author.account_created_at.day :
        i \in {j \in DOMAIN potential_bots :
                  potential_bots[j].author.account_created_at # NoDate}}

\* the number of potential bots that carry account_created_at
CreationTimeCount(potential_bots) ==
    Cardinality({j \in DOMAIN potential_bots :
                    potential_bots[j].author.account_created_at # NoDate})

\* the pairs i < j of potential bots with similarity > 0.7
SimilarBehaviorPairs(potential_bots) ==
    {pr \in (DOMAIN potential_bots) \X (DOMAIN potential_bots) :
        /\ pr[1] < pr[2]
        /\ LET similarity == CalculateBotSimilarity(potential_bots[pr[1]],
                                                    potential_bots[pr[2]])
           IN  10 * similarity.num > 7 * similarity.den}

\* a test of the network score that includes the threshold itself
NetworkDetectedFromThreshold(network_score) ==
    10 * network_score.num >= 6 * network_score.den

\* 'network_detected': network_score > 0.6
NetworkDetected(network_score) == 10 * network_score.num > 6 * network_score.den

\* bot_results: the result of every author, with the author added;
\* errs[i] is the sign of the rounding error of the i-th weighted sum
BotResults(authors, ps, today, errs) ==
    [i \in DOMAIN authors |->
        WithAuthor(CalculateBotLikelihood(authors[i], AuthorPosts(authors[i], ps),
                                          today, errs[i]),
                   authors[i])]

\* the 0.4 for similar creation times, in tenths
CreationScore(potential_bots) ==
    IF /\ CreationTimeCount(potential_bots) >= 3
       /\ MaxOf(CreationTimes(potential_bots))
             - MinOf(CreationTimes(potential_bots)) < 30
    THEN 4 ELSE 0

\* len(potential_bots) * (len(potential_bots) - 1) / 2
TotalPairs(potential_bots) ==
    (Len(potential_bots) * (Len(potential_bots) - 1)) \div 2

\* network_score before the clamp, a fraction (for up to five potential
\* bots the float sum compares with 0.6 as the fraction does)
NetworkScore(potential_bots) ==
    IF Len(potential_bots) >= 3
    THEN Reduce(CreationScore(potential_bots) * TotalPairs(potential_bots)
                   + 6 * Cardinality(SimilarBehaviorPairs(potential_bots)),
                10 * TotalPairs(potential_bots))
    ELSE [num |-> 0, den |-> 1]

\* the dictionary analyze_bot_network returns for three or more authors
NetworkResult(authors, potential_bots) ==
    [network_detected |-> NetworkDetected(NetworkScore(potential_bots)),
     bot_accounts |-> potential_bots,
     network_score |-> ClampOne(NetworkScore(potential_bots)),
     total_analyzed |-> Len(authors),
     potential_bots_count |-> Len(potential_bots)]

\* analyze_bot_network(authors, posts)
AnalyzeBotNetwork(authors, ps, today, errs) ==
    IF Len(authors) < 3
    THEN [network_detected |-> FALSE, bot_accounts |-> <<>>,
          network_score |-> [num |-> 0, den |-> 1]]
    ELSE NetworkResult(authors,
                       SelectSeq(BotResults(authors, ps, today, errs), IsPotentialBot))

\* ------------------------------------------------------------------------
\* Specification SpecBot: one call of calculate_bot_likelihood(author,
\* posts), or one call of _calculate_bot_similarity on the results of two
\* accounts, as analyze_bot_network makes it.
\* Specification SpecNetwork: one call of analyze_bot_network(authors,
\* posts) on up to MaxNetworkAuthors accounts.
\* ------------------------------------------------------------------------
MaxBotPosts == 11

\* datetime.now(), as a day number
BotToday == 400

Usernames ==
    { <<>>,
      <<"a", "l", "i", "c", "e">>,
      <<"u", "s", "e", "r", "1", "2", "3", "a", "b", "c">>,
      <<"U", "s", "e", "r", "9", "9">>,
      <<"a", "1", "b", "2", "2", "2", "2", "2", "2", "2">>,
      <<"a", "b", "1", "2", "c", "d">> }

Bios == { [length |-> 0, promotional |-> FALSE],
          [length |-> 20, promotional |-> TRUE],
          [length |-> 60, promotional |-> FALSE] }

\* <<followers_count, following_count>>
FollowCounts == { <<50, 2000>>, <<50, 2001>>, <<10, 3000>>, <<30000, 100>>, <<500, 400>> }

CreationDates == {NoDate} \cup {[given |-> TRUE, day |-> d] : d \in {BotToday - 5, BotToday + 1}}

\* the sign of a floating-point rounding error
FloatErrors == {-1, 0, 1}

Author(u, b, other, f, c) ==
    [username |-> u, bio |-> b,
     location |-> other, url |-> other, profile_image_url |-> other,
     followers_count |-> f[1], following_count |-> f[2],
     account_created_at |-> c]

BotAuthors ==
    {Author(u, b, other, f, c) :
        u \in Usernames, b \in Bios, other \in BOOLEAN, f \in FollowCounts,
        c \in CreationDates}

\* the accounts whose likelihood is computed: the creation date does not
\* enter any signal
LikelihoodAuthors == {a \in BotAuthors : a.account_created_at = NoDate}

\* the other account of a pair: a plain profile
PairedAuthors ==
    {Author(<<"a", "l", "i", "c", "e">>, [length |-> 0, promotional |-> FALSE],
            FALSE, f, c) : f \in FollowCounts, c \in CreationDates}

PostCounts == {0, 2, 5, 10, MaxBotPosts}
Spacings == {"same", "uneven", "regular", "hourly"}
StartMinutes == {0, 600}
Styles == {"plain", "loud", "engaged"}

\* minutes from the first post to post i (i from 0)
Offset(spacing, i) ==
    CASE spacing = "same" -> 0
      [] spacing = "uneven" -> 5 * i + 2 * (i % 2)
      [] spacing = "regular" -> 6 * i
      [] OTHER -> 60 * i

Words == <<"one", "two", "three", "four", "five", "six", "seven", "eight",
           "nine", "ten", "eleven", "twelve">>

BotPosts(n, spacing, start, identical, style) ==
    [i \in 1..n |->
        [posted_at |-> start + Offset(spacing, i - 1),
         text_content |-> IF identical THEN <<"buy", "now">> ELSE <<"news", Words[i]>>,
         hashtags |-> IF style = "loud" THEN 6 ELSE 0,
         mentions |-> IF style = "loud" THEN 4 ELSE 0,
         likes_count |-> CASE style = "loud" -> 3 [] style = "engaged" -> 1 [] OTHER -> 0,
         retweets_count |-> IF style = "engaged" THEN 1 ELSE 0,
         replies_count |-> IF style = "engaged" THEN 1 ELSE 0]]

BotPostLists ==
    {BotPosts(n, spacing, start, identical, style) :
        n \in PostCounts, spacing \in Spacings, start \in StartMinutes,
        identical \in BOOLEAN, style \in Styles}

\* the accounts of a network call: an automated profile created 5 days
\* ago, the same profile without account_created_at, created 100 days ago,
\* or with a large following of its own, and a plain account
MaxNetworkAuthors == 4
NetworkKinds == <<"recent", "undated", "old", "popular", "plain">>

NetworkProfile(kind) ==
    IF kind = "plain"
    THEN Author(<<"a", "l", "i", "c", "e">>, [length |-> 60, promotional |-> FALSE],
                TRUE, <<500, 400>>, [given |-> TRUE, day |-> BotToday - 5])
    ELSE Author(<<"u", "s", "e", "r", "1", "2", "3", "a", "b", "c">>,
                [length |-> 0, promotional |-> FALSE], FALSE,
                IF kind = "popular" THEN <<30000, 100>> ELSE <<10, 3000>>,
                CASE kind = "undated" -> NoDate
                  [] kind = "old" -> [given |-> TRUE, day |-> BotToday - 100]
                  [] OTHER -> [given |-> TRUE, day |-> BotToday - 5])

\* the posts an account of the kind wrote
NetworkPostsOf(kind) ==
    IF kind = "plain" THEN BotPosts(2, "hourly", 0, FALSE, "plain")
    ELSE BotPosts(10, "same", 0, TRUE, "loud")

\* a dictionary with one more key
WithKey(d, key, value) ==
    [f \in DOMAIN d \cup {key} |-> IF f = key THEN value ELSE d[f]]

\* the i-th author of the call carries platform_user_id i
NetworkAuthors(kinds) ==
    [i \in DOMAIN kinds |-> WithKey(NetworkProfile(kinds[i]), "platform_user_id", i)]

\* the posts of the call: those of every account, one account after the other
RECURSIVE NetworkPosts(_, _)
NetworkPosts(kinds, i) ==
    IF i > Len(kinds) THEN <<>>
    ELSE LET own == NetworkPostsOf(kinds[i])
         IN  [k \in DOMAIN own |-> WithKey(own[k], "author_id", i)]
             \o NetworkPosts(kinds, i + 1)

NetworkCalls ==
    {[call |-> "network", authors |-> NetworkAuthors(kinds),
      posts |-> NetworkPosts(kinds, 1)] :
        kinds \in UNION {{[i \in 1..n |-> NetworkKinds[ix[i]]] :
                             ix \in SortedSeqs(1..Len(NetworkKinds), n)} :
                         n \in 2..MaxNetworkAuthors}}

InitBot ==
    /\ \/ /\ botIn \in [call : {"likelihood"}, author : LikelihoodAuthors \cup {NoAuthor},
                        other : {NoAuthor}, posts : BotPostLists]
       \/ /\ botIn \in [call : {"similarity"}, author : BotAuthors,
                        other : PairedAuthors, posts : {<<>>}]
    /\ botOut = NoResult
    /\ IdleScore /\ IdleSeverity /\ IdleCoord /\ IdleBurst /\ IdleGroup
    /\ IdleSeries /\ IdleAttr

\* result = detector.calculate_bot_likelihood(author, posts)
CalculateLikelihood ==
    /\ botOut = NoResult
    /\ botIn.call = "likelihood"
    /\ \E err \in FloatErrors :
          botOut' = CalculateBotLikelihood(botIn.author, botIn.posts, BotToday, err)
    /\ UNCHANGED botIn
    /\ UNCHANGED scoreVars /\ UNCHANGED sevVars /\ UNCHANGED coordVars
    /\ UNCHANGED burstVars /\ UNCHANGED groupVars
    /\ UNCHANGED seriesVars /\ UNCHANGED attrVars

\* similarity = self._calculate_bot_similarity(potential_bots[i], potential_bots[j])
CalculateSimilarity ==
    /\ botOut = NoResult
    /\ botIn.call = "similarity"
    /\ botOut' = [similarity |->
                     CalculateBotSimilarity(
                         CalculateBotLikelihood(botIn.author, botIn.posts, BotToday, 0),
                         CalculateBotLikelihood(botIn.other, botIn.posts, BotToday, 0))]
    /\ UNCHANGED botIn
    /\ UNCHANGED scoreVars /\ UNCHANGED sevVars /\ UNCHANGED coordVars
    /\ UNCHANGED burstVars /\ UNCHANGED groupVars
    /\ UNCHANGED seriesVars /\ UNCHANGED attrVars

\* network = detector.analyze_bot_network(authors, posts)
AnalyzeNetwork ==
    /\ botOut = NoResult
    /\ botIn.call = "network"
    /\ \E errs \in [DOMAIN botIn.authors -> FloatErrors] :
          botOut' = AnalyzeBotNetwork(botIn.authors, botIn.posts, BotToday, errs)
    /\ UNCHANGED botIn
    /\ UNCHANGED scoreVars /\ UNCHANGED sevVars /\ UNCHANGED coordVars
    /\ UNCHANGED burstVars /\ UNCHANGED groupVars
    /\ UNCHANGED seriesVars /\ UNCHANGED attrVars

NextBot == CalculateLikelihood \/ CalculateSimilarity

SpecBot == InitBot /\ [][NextBot]_vars

LikelihoodDone == botOut # NoResult /\ botIn.call = "likelihood"
SimilarityDone == botOut # NoResult /\ botIn.call = "similarity"

\* the reported bot_likelihood_score is at least h hundredths
ScoreAtLeast(h) ==
    \/ 100 * botOut.bot_likelihood_score > h * ScoreUnit
    \/ 100 * botOut.bot_likelihood_score = h * ScoreUnit /\ botOut.rounding >= 0

\* C16: a score >= 0.7 is classified likely_bot with risk high, a score
\* >= 0.5 and below 0.7 suspicious with risk medium, a lower score
\* likely_human with risk low; a missing or empty author gives unknown, low
\* and score 0.
C16_Classification ==
    LikelihoodDone =>
        LET bot == ScoreAtLeast(70)
            sus == ScoreAtLeast(50)
        IN  IF botIn.author = NoAuthor
            THEN /\ botOut.classification = "unknown"
                 /\ botOut.risk_level = "low"
                 /\ botOut.bot_likelihood_score = 0
            ELSE /\ bot => botOut.classification = "likely_bot" /\ botOut.risk_level = "high"
                 /\ (sus /\ ~bot)
                    => botOut.classification = "suspicious" /\ botOut.risk_level = "medium"
                 /\ ~sus
                    => botOut.classification = "likely_human" /\ botOut.risk_level = "low"

C16_Witness ==
    /\ LikelihoodDone
    /\ 100 * botOut.bot_likelihood_score = 50 * ScoreUnit
    /\ botOut.rounding = 0
    /\ botOut.classification = "suspicious"

\* the account and the posts of the bot classification scenario
BotScenario ==
    /\ botIn.author # NoAuthor
    /\ botIn.author.username = <<"u", "s", "e", "r", "1", "2", "3", "a", "b", "c">>
    /\ botIn.author.bio.length = 0
    /\ ~botIn.author.location /\ ~botIn.author.url /\ ~botIn.author.profile_image_url
    /\ botIn.author.followers_count = 50
    /\ botIn.author.following_count = 2000
    /\ Len(botIn.posts) = 10
    /\ \A i, j \in DOMAIN botIn.posts :
          /\ botIn.posts[i].text_content = botIn.posts[j].text_content
          /\ botIn.posts[i].posted_at - botIn.posts[j].posted_at <= 60

\* C17: the account user123abc with an empty profile, 50 followers, 2000
\* followed accounts and 10 identical posts within one hour is classified
\* likely_bot, and suspicious_username_pattern is among the indicators.
C17_BotScenario ==
    (LikelihoodDone /\ BotScenario)
        => /\ botOut.classification = "likely_bot"
           /\ "suspicious_username_pattern" \in botOut.indicators

\* C18: the seven bot signals, bot_likelihood_score and the similarity of
\* two bot accounts are in [0,1].
C18_UnitRange ==
    /\ (LikelihoodDone /\ botIn.author # NoAuthor)
        => /\ \A c \in BotSignals : botOut.component_scores[c] \in 0..SignalUnit
           /\ botOut.bot_likelihood_score \in 0..ScoreUnit
           /\ botOut.bot_likelihood_score = 0 => botOut.rounding >= 0
           /\ botOut.bot_likelihood_score = ScoreUnit => botOut.rounding <= 0
    /\ SimilarityDone
        => /\ botOut.similarity.num >= 0
           /\ botOut.similarity.num <= botOut.similarity.den

InitNetwork ==
    /\ botIn \in NetworkCalls
    /\ botOut = NoResult
    /\ IdleScore /\ IdleSeverity /\ IdleCoord /\ IdleBurst /\ IdleGroup
    /\ IdleSeries /\ IdleAttr

NextNetwork == AnalyzeNetwork

SpecNetwork == InitNetwork /\ [][NextNetwork]_vars

NetworkDone == botOut # NoResult /\ botIn.call = "network"

\* the results of the accounts of the call with bot_likelihood_score > 0.5
SuppliedBots == {i \in DOMAIN botOut.bot_accounts : IsPotentialBot(botOut.bot_accounts[i])}

\* the fraction of pairs of reported potential bots with similarity > 0.7,
\* in sixtieths
SimilarSixtieths ==
    LET n == Len(botOut.bot_accounts)
    IN  (60 * Cardinality(SimilarBehaviorPairs(botOut.bot_accounts)))
            \div ((n * (n - 1)) \div 2)

\* network_score is x hundredths
NetworkScoreIs(x) == 100 * botOut.network_score.num = x * botOut.network_score.den

\* what C26 says of the call apart from the creation-time term
NetworkScoreRule(creationTerm) ==
    /\ botOut.network_detected
          => Len(botIn.authors) >= 3 /\ Cardinality(SuppliedBots) >= 3
    /\ (Len(botIn.authors) < 3 \/ Len(botOut.bot_accounts) < 3) => NetworkScoreIs(0)
    /\ (Len(botIn.authors) >= 3 /\ Len(botOut.bot_accounts) >= 3)
          => NetworkScoreIs((IF creationTerm THEN 40 ELSE 0) + SimilarSixtieths)
    /\ botOut.network_detected
          <=> 10 * botOut.network_score.num > 6 * botOut.network_score.den

\* C26 as stated: network_detected only with at least 3 authors of which at
\* least 3 score above 0.5; network_score is 0 below either count, and
\* otherwise 0.4 (if the creation times of the potential bots span less
\* than 30 days) plus 0.6 times the fraction of potential-bot pairs with
\* similarity > 0.7; network_detected iff that score > 0.6.
C26_NetworkScore ==
    NetworkDone =>
        NetworkScoreRule(
            /\ CreationTimes(botOut.bot_accounts) # {}
            /\ MaxOf(CreationTimes(botOut.bot_accounts))
                  - MinOf(CreationTimes(botOut.bot_accounts)) < 30)

\* C26 (amended): the 0.4 is added only when at least 3 of the potential
\* bots carry a creation time and these times span less than 30 days.
C26_NetworkScoreThreeDates ==
    NetworkDone =>
        NetworkScoreRule(
            /\ CreationTimeCount(botOut.bot_accounts) >= 3
            /\ MaxOf(CreationTimes(botOut.bot_accounts))
                  - MinOf(CreationTimes(botOut.bot_accounts)) < 30)

\* four potential bots, three of them dated within 30 days: the network
\* is detected with a score between 0.6 and 1
C26_Witness ==
    /\ NetworkDone
    /\ Len(botOut.bot_accounts) = 4
    /\ CreationTimeCount(botOut.bot_accounts) = 3
    /\ botOut.network_detected
    /\ botOut.network_score.num < botOut.network_score.den

\* ------------------------------------------------------------------------
\* Specification SpecGroup: one call of _group_similar_content on a list of
\* up to MaxPairs distinct similar pairs over the posts 1..MaxGroupPosts, in
\* any order.  Similarity above the threshold is not transitive, so every
\* set of pairs can come from _detect_text_similarity_coordination.
\* ------------------------------------------------------------------------
MaxGroupPosts == 4
MaxPairs == 3

\* a similar pair of the posts i and j; the author of a post is its id
SimilarPair(i, j) ==
    [post1 |-> i, post2 |-> j, author1 |-> i, author2 |-> j, similarity |-> 100]

PairLists ==
    UNION {{l \in [1..n -> {SimilarPair(i, j) : i, j \in 1..MaxGroupPosts}] :
               /\ \A k \in 1..n : l[k].post1 < l[k].post2
               /\ \A k1, k2 \in 1..n : k1 # k2 => l[k1] # l[k2]} :
           n \in 0..MaxPairs}

InitGroup ==
    /\ pairList \in PairLists
    /\ groupsOut = NoResult
    /\ IdleScore /\ IdleSeverity /\ IdleCoord /\ IdleBurst /\ IdleBot
    /\ IdleSeries /\ IdleAttr

\* groups = self._group_similar_content(similar_pairs)
GroupContent ==
    /\ groupsOut = NoResult
    /\ groupsOut' = [returned |-> TRUE, groups |-> GroupSimilarContent(pairList)]
    /\ UNCHANGED pairList
    /\ UNCHANGED scoreVars /\ UNCHANGED sevVars /\ UNCHANGED coordVars
    /\ UNCHANGED burstVars /\ UNCHANGED botVars
    /\ UNCHANGED seriesVars /\ UNCHANGED attrVars

NextGroup == GroupContent

SpecGroup == InitGroup /\ [][NextGroup]_vars

\* the posts joined to the posts of S by one pair of the list
Joined(pairs, S) ==
    S \cup {pairs[k].post2 : k \in {x \in DOMAIN pairs : pairs[x].post1 \in S}}
      \cup {pairs[k].post1 : k \in {x \in DOMAIN pairs : pairs[x].post2 \in S}}

RECURSIVE ReachableFrom(_, _)
ReachableFrom(pairs, S) ==
    IF Joined(pairs, S) = S THEN S ELSE ReachableFrom(pairs, Joined(pairs, S))

\* the connected components of the graph whose edges are the pairs
ConnectedComponents(pairs) ==
    {ReachableFrom(pairs, {pairs[k].post1}) : k \in DOMAIN pairs}

\* C20: the groups of _group_similar_content are exactly the connected
\* components of the similar pairs, in whatever order the pairs are given,
\* and no post is in two groups.
C20_GroupsAreComponents ==
    groupsOut # NoResult =>
        /\ {Range(groupsOut.groups[g].posts) : g \in DOMAIN groupsOut.groups}
               = ConnectedComponents(pairList)
        /\ \A g1, g2 \in DOMAIN groupsOut.groups :
               g1 # g2 => Range(groupsOut.groups[g1].posts)
                              \cap Range(groupsOut.groups[g2].posts) = {}

\* ------------------------------------------------------------------------
\* _kleinberg_burst_detection on an hourly series (SpecSeries)
\* ------------------------------------------------------------------------
MaxHours == 5
MaxCount == 3

\* time_series['count'].values: one count per hourly bucket
CountSeries == UNION {[1..n -> 0..MaxCount] : n \in 3..MaxHours}

InitSeries ==
    /\ kbSeries \in CountSeries
    /\ kbOut = NoResult
    /\ IdleScore /\ IdleSeverity /\ IdleCoord /\ IdleBurst /\ IdleBot /\ IdleGroup
    /\ IdleAttr

\* bursts = self._kleinberg_burst_detection(time_series); states is the
\* local array of the call, kept when the DP ran (base_rate > 0)
KleinbergStep ==
    /\ kbOut = NoResult
    /\ kbOut' = [returned |-> TRUE,
                 ran |-> SumSeq(kbSeries) > 0,
                 states |-> IF SumSeq(kbSeries) > 0 THEN BurstStates(kbSeries)
                            ELSE <<>>,
                 bursts |-> KleinbergBurstDetection([first |-> 0, count |-> kbSeries])]
    /\ UNCHANGED kbSeries
    /\ UNCHANGED scoreVars /\ UNCHANGED sevVars /\ UNCHANGED coordVars
    /\ UNCHANGED burstVars /\ UNCHANGED botVars /\ UNCHANGED groupVars
    /\ UNCHANGED attrVars

NextSeries == KleinbergStep

SpecSeries == InitSeries /\ [][NextSeries]_vars

DPRan == kbOut # NoResult /\ kbOut.ran

\* the total cost of a state sequence: the emission cost of every hour plus
\* (state increase) * gamma for every upward step, nothing for the others
SequenceCost(seq, counts) ==
    SumSeq([t \in DOMAIN counts |->
               EmissionCost(counts[t], SumSeq(counts), Len(counts), seq[t])])
    + SumSeq([t \in 1..(Len(counts) - 1) |->
               IF seq[t + 1] > seq[t]
               THEN (seq[t + 1] - seq[t]) * gamma * LnScale ELSE 0])

\* C22: for every series with a positive base rate the state sequence the
\* DP chooses has the least total cost among all num_states^n sequences.
C22_OptimalSequence ==
    DPRan =>
        /\ kbOut.states \in [1..Len(kbSeries) -> States]
        /\ \A seq \in [1..Len(kbSeries) -> States] :
              SequenceCost(kbOut.states, kbSeries) <= SequenceCost(seq, kbSeries)

\* the DP chose a sequence that climbs and that is strictly cheaper than
\* staying in any one state
C22_Witness ==
    /\ DPRan
    /\ \E t \in 1..(Len(kbSeries) - 1) : kbOut.states[t + 1] > kbOut.states[t]
    /\ \A k \in States :
          SequenceCost(kbOut.states, kbSeries)
              < SequenceCost([t \in DOMAIN kbSeries |-> k], kbSeries)

\* the maximal runs b..e of hours with state > 0
BurstRuns(states) ==
    {r \in (DOMAIN states) \X (DOMAIN states) :
        /\ r[1] <= r[2]
        /\ \A t \in r[1]..r[2] : states[t] > 0
        /\ r[1] > 1 => states[r[1] - 1] = 0
        /\ r[2] < Len(states) => states[r[2] + 1] = 0}

\* the event describes the run b..e of the series that starts at hour 0
DescribesRun(burst, states, counts, b, e) ==
    /\ burst.start_time = b - 1
    /\ burst.end_time = e - 1
    /\ burst.duration_hours = e - b + 1
    /\ burst.total_posts = SumSeq(SubSeq(counts, b, e))
    /\ burst.intensity.num * (e - b + 1)
           = SumSeq(SubSeq(states, b, e)) * burst.intensity.den

\* C23: the burst events are exactly the maximal runs of hours with
\* state > 0, in time order and disjoint, a run that reaches the last hour
\* included; duration_hours is the run length, total_posts the sum of its
\* counts and intensity the mean of its states.
C23_BurstsAreRuns ==
    DPRan =>
        LET bursts == kbOut.bursts
            runs == BurstRuns(kbOut.states)
        IN  /\ Len(bursts) = Cardinality(runs)
            /\ \A k \in DOMAIN bursts : \E r \in runs :
                  DescribesRun(bursts[k], kbOut.states, kbSeries, r[1], r[2])
            /\ \A k \in 1..(Len(bursts) - 1) :
                  bursts[k].end_time < bursts[k + 1].start_time

\* two bursts, the second one still open at the last hour
C23_Witness ==
    /\ DPRan
    /\ Len(kbOut.bursts) = 2
    /\ kbOut.states[Len(kbSeries)] > 0
    /\ kbOut.bursts[2].end_time = Len(kbSeries) - 1

\* ------------------------------------------------------------------------
\* The per-author bot analysis of score_campaign (SpecAttr): the authors
\* are extracted from the posts, then _run_analysis_pipeline and
\* analyze_bot_network hand each author's posts to calculate_bot_likelihood.
\* The author dictionary of a post is [platform_user_id, username]; "" is a
\* key that is absent (None), and a post without author has both absent.
\* ------------------------------------------------------------------------
MaxAttrPosts == 4

UserIds == {"", "x", "y"}
UserNames == {"", "a", "b"}

AttrAuthors == [platform_user_id : UserIds, username : UserNames]

\* user_id = author.get('platform_user_id') or author.get('username')
AuthorKey(author) ==
    IF author.platform_user_id # "" THEN author.platform_user_id ELSE author.username

\* _extract_authors: authors_dict, as the keys in order of insertion and
\* the author dictionary stored with each
RECURSIVE ExtractAuthors(_, _)
ExtractAuthors(ps, authors_dict) ==
    IF ps = <<>> THEN authors_dict
    ELSE LET user_id == AuthorKey(Head(ps).author)
         IN  ExtractAuthors(Tail(ps),
                 IF user_id # "" /\ \A k \in DOMAIN authors_dict :
                                       authors_dict[k].key # user_id
                 THEN Append(authors_dict, [key |-> user_id, author |-> Head(ps).author])
                 ELSE authors_dict)

\* author_posts, as the positions of the posts in the list
AuthorPostIndexes(author, ps) ==
    {i \in DOMAIN ps : ps[i].author.platform_user_id = author.platform_user_id}

\* the bot analysis of _run_analysis_pipeline and of analyze_bot_network:
\* the authors and the posts handed over with each of them
BotAnalysisOf(ps) ==
    LET authors == [k \in DOMAIN ExtractAuthors(ps, <<>>) |->
                       ExtractAuthors(ps, <<>>)[k].author]
        handed == [k \in DOMAIN authors |-> AuthorPostIndexes(authors[k], ps)]
    IN  [returned |-> TRUE,
         authors |-> authors,
         bot_detection |-> handed,
         bot_network |-> IF Len(authors) < 3 THEN <<>> ELSE handed]

InitAttr ==
    /\ attrPosts \in UNION {[1..n -> [author : AttrAuthors]] : n \in 1..MaxAttrPosts}
    /\ attrOut = NoResult
    /\ IdleScore /\ IdleSeverity /\ IdleCoord /\ IdleBurst /\ IdleBot /\ IdleGroup
    /\ IdleSeries

\* scorer.score_campaign(posts), as far as the bot analysis goes
RunBotAnalysis ==
    /\ attrOut = NoResult
    /\ attrOut' = BotAnalysisOf(attrPosts)
    /\ UNCHANGED attrPosts
    /\ UNCHANGED scoreVars /\ UNCHANGED sevVars /\ UNCHANGED coordVars
    /\ UNCHANGED burstVars /\ UNCHANGED botVars /\ UNCHANGED groupVars
    /\ UNCHANGED seriesVars

NextAttr == RunBotAnalysis

SpecAttr == InitAttr /\ [][NextAttr]_vars

\* the posts written by the author: those whose author has the same key
WrittenBy(author) ==
    {i \in DOMAIN attrPosts : AuthorKey(attrPosts[i].author) = AuthorKey(author)}

\* every author is handed exactly the posts the author wrote, and no post
\* is handed over with two authors
OwnPostsOnly(handed) ==
    /\ \A k \in DOMAIN handed : handed[k] = WrittenBy(attrOut.authors[k])
    /\ \A k1, k2 \in DOMAIN handed : k1 # k2 => handed[k1] \cap handed[k2] = {}

\* C29: in score_campaign and in analyze_bot_network the posts passed to
\* calculate_bot_likelihood for an extracted author (keyed by
\* platform_user_id, or by username when the id is absent) are exactly the
\* posts written by that author, and no post is attributed to two authors.
C29_OwnPostsOnly ==
    attrOut # NoResult =>
        /\ OwnPostsOnly(attrOut.bot_detection)
        /\ OwnPostsOnly(attrOut.bot_network)

====
